---- MODULE Spec2Model ----
(***************************************************************************)
(* Model of the metasearch migration subsystem (internal/metasearch):      *)
(* the encryptor repository (encryptor.go), the object migrator and its    *)
(* per-project worker (object_migrator.go) and the request gate of the     *)
(* server (server.go).                                                     *)
(*                                                                         *)
(* An UplinkEncryptor is represented by its storeEntries set: a set of     *)
(* key identifiers.  An encryptor can decrypt a path (or a metadata blob)  *)
(* exactly when the key that sealed it is one of its store entries.        *)
(* Three keys give every comparison result, chains and antichains.         *)
(***************************************************************************)
EXTENDS Integers, Sequences, FiniteSets, TLC

(***************************************************************************)
(* Bounds                                                                  *)
(***************************************************************************)
MaxEntries == 3      \* repository entries (stand-alone repository)
MaxCount == 1        \* cap of the success / total counters
MaxTime == 2         \* external writes, each with its own timestamp
MaxChans == 3        \* waiter channels alive at the same time
MaxRuns == 2         \* goroutine slots for the runs of the worker
MaxPrefix == 1       \* "json:" prefixes in front of a key of an input object
MaxArrayLen == 2     \* elements of an array of a JSON value

\* maxEncryptorsPerProject is 100 in the source; the model is scaled down.
maxEncryptorsPerProject == 1

Keys == {1, 2, 3}
Encryptors == SUBSET Keys

(***************************************************************************)
(* encryptor.go: EncryptorComparisonResult                                 *)
(***************************************************************************)
EncryptorComparisonIdentical == 0
EncryptorComparisonSubset == 1
EncryptorComparisonSuperset == 2
EncryptorComparisonDifferent == 3

VARIABLES
    encryptors,     \* EncryptorRepository.encryptors: sequence of entries
    call,           \* the last stand-alone repository call: operation, argument, result
    workerExists,   \* ObjectMigrator.workers has the project's worker
    startTime,      \* ObjectMigratorWorker.startTime (Nil or a timestamp)
    running,        \* ObjectMigratorWorker.running
    subscribers,    \* ObjectMigratorWorker.subscribers: sequence of channels
    chanBuf,        \* number of values buffered in each waiter channel
    chanSent,       \* number of values sent to each channel since it was made
    blocked,        \* the finishing goroutine is blocked in a send, mutex held
    run,            \* the goroutines started by ObjectMigratorWorker.Start
    req,            \* the API requests being handled
    objects,        \* the objects table: metasearch_queued_at of every object
    now,            \* the clock of the database
    rescanPending,  \* an encryptor was added and no run has read startTime since
    calc,           \* the last call of a function of util.go: arguments and result
    objRow,         \* the latest version of one object in the objects table
    mig,            \* the MigrateObject calls in flight on that object
    get             \* the GET request in flight on that object and its response

repoVars == <<encryptors, call>>

workerVars ==
    <<workerExists, startTime, running, subscribers, chanBuf, chanSent,
      blocked, run, req, objects, now, rescanPending>>

storeVars == <<objRow, mig, get>>

auxVars == <<calc, objRow, mig, get>>

vars ==
    <<encryptors, call, workerExists, startTime, running, subscribers, chanBuf,
      chanSent, blocked, run, req, objects, now, rescanPending,
      calc, objRow, mig, get>>

Nil == 0

\* Variant of Compare that reports partially overlapping sets as Superset.
CompareNoDefault(e, oe) ==
    LET superset == Cardinality({s \in e : s \notin oe})
        subset == Cardinality({s \in oe : s \notin e})
    IN  IF subset = 0 /\ superset = 0 THEN EncryptorComparisonIdentical
        ELSE IF subset > 0 /\ superset = 0 THEN EncryptorComparisonSubset
        ELSE EncryptorComparisonSuperset

\* UplinkEncryptor.Compare: counts the store entries only e has (superset)
\* and the store entries only oe has (subset).
Compare(e, oe) ==
    LET superset == Cardinality({s \in e : s \notin oe})
        subset == Cardinality({s \in oe : s \notin e})
    IN  IF subset = 0 /\ superset = 0 THEN EncryptorComparisonIdentical
        ELSE IF subset > 0 /\ superset = 0 THEN EncryptorComparisonSubset
        ELSE IF subset = 0 /\ superset > 0 THEN EncryptorComparisonSuperset
        ELSE EncryptorComparisonDifferent

\* EncryptorRepositoryEntry{encryptor: newEncryptor}: zero counters.
NewEntry(newEncryptor) ==
    [encryptor |-> newEncryptor, success |-> 0, total |-> 0]

\* Variants of the AddEncryptor loop with a changed comparison test.
RECURSIVE AddEncryptorLoopNoIdentical(_, _, _)
AddEncryptorLoopNoIdentical(encs, newEncryptor, i) ==
    IF i > Len(encs)
    THEN [encryptors |-> Append(encs, NewEntry(newEncryptor)), ret |-> TRUE]
    ELSE LET cmp == Compare(newEncryptor, encs[i].encryptor)
         IN  IF cmp = EncryptorComparisonSubset
             THEN [encryptors |-> encs, ret |-> FALSE]
             ELSE IF cmp = EncryptorComparisonSuperset
             THEN [encryptors |-> [encs EXCEPT ![i] = NewEntry(newEncryptor)],
                   ret |-> TRUE]
             ELSE AddEncryptorLoopNoIdentical(encs, newEncryptor, i + 1)

RECURSIVE AddEncryptorLoopNoSubset(_, _, _)
AddEncryptorLoopNoSubset(encs, newEncryptor, i) ==
    IF i > Len(encs)
    THEN [encryptors |-> Append(encs, NewEntry(newEncryptor)), ret |-> TRUE]
    ELSE LET cmp == Compare(newEncryptor, encs[i].encryptor)
         IN  IF cmp = EncryptorComparisonIdentical
             THEN [encryptors |-> encs, ret |-> FALSE]
             ELSE IF cmp = EncryptorComparisonSuperset
             THEN [encryptors |-> [encs EXCEPT ![i] = NewEntry(newEncryptor)],
                   ret |-> TRUE]
             ELSE AddEncryptorLoopNoSubset(encs, newEncryptor, i + 1)

\* Variant that keeps walking after a replacement and replaces every entry
\* the new encryptor is a superset of.
RECURSIVE AddEncryptorLoopReplaceAll(_, _, _)
AddEncryptorLoopReplaceAll(encs, newEncryptor, i) ==
    IF i > Len(encs)
    THEN [encryptors |-> Append(encs, NewEntry(newEncryptor)), ret |-> TRUE]
    ELSE LET cmp == Compare(newEncryptor, encs[i].encryptor)
         IN  IF cmp = EncryptorComparisonIdentical \/ cmp = EncryptorComparisonSubset
             THEN [encryptors |-> encs, ret |-> FALSE]
             ELSE IF cmp = EncryptorComparisonSuperset
             THEN [encryptors |->
                     [k \in 1..Len(encs) |->
                        IF k >= i /\ Compare(newEncryptor, encs[k].encryptor)
                                        = EncryptorComparisonSuperset
                        THEN NewEntry(newEncryptor) ELSE encs[k]],
                   ret |-> TRUE]
             ELSE AddEncryptorLoopReplaceAll(encs, newEncryptor, i + 1)

\* The loop of EncryptorRepository.AddEncryptor from index i on.
RECURSIVE AddEncryptorLoop(_, _, _)
AddEncryptorLoop(encs, newEncryptor, i) ==
    IF i > Len(encs)
    THEN [encryptors |-> Append(encs, NewEntry(newEncryptor)), ret |-> TRUE]
    ELSE LET cmp == Compare(newEncryptor, encs[i].encryptor)
         IN  IF cmp = EncryptorComparisonIdentical \/ cmp = EncryptorComparisonSubset
             THEN [encryptors |-> encs, ret |-> FALSE]
             ELSE IF cmp = EncryptorComparisonSuperset
             THEN [encryptors |-> [encs EXCEPT ![i] = NewEntry(newEncryptor)],
                   ret |-> TRUE]
             ELSE AddEncryptorLoop(encs, newEncryptor, i + 1)

\* EncryptorRepository.AddEncryptor: new repository contents and result.
RepoAddEncryptor(encs, newEncryptor) == AddEncryptorLoop(encs, newEncryptor, 1)

\* Encryptor.DecryptPath / DecryptMetadata succeed when the encryptor holds
\* the key the path (the metadata) was sealed with.
CanDecrypt(e, pathKey, metaKey) == pathKey \in e /\ metaKey \in e

\* atomic.AddInt64(&counter, 1); the model's counters saturate at MaxCount.
AddInt64(n) == IF n < MaxCount THEN n + 1 ELSE n

\* The loop of EncryptorRepository.DecryptMetadata from index i on:
\* total is incremented for every entry tried, success for the one that
\* decrypts both path and metadata; ok tells whether one was found.
RECURSIVE DecryptLoop(_, _, _, _)
DecryptLoop(encs, pathKey, metaKey, i) ==
    IF i > Len(encs)
    THEN [encryptors |-> encs, ok |-> FALSE]
    ELSE LET tried == [encs EXCEPT ![i].total = AddInt64(@)]
         IN  IF CanDecrypt(encs[i].encryptor, pathKey, metaKey)
             THEN [encryptors |-> [tried EXCEPT ![i].success = AddInt64(@)], ok |-> TRUE]
             ELSE DecryptLoop(tried, pathKey, metaKey, i + 1)

\* Variant that counts an attempt only for the entry that decrypts.
RepoDecryptMetadataTotalOnHit(encs, pathKey, metaKey) ==
    LET r == DecryptLoop(encs, pathKey, metaKey, 1)
    IN  [encryptors |->
           [i \in 1..Len(encs) |->
              IF r.encryptors[i].success = encs[i].success
              THEN encs[i] ELSE r.encryptors[i]],
         ok |-> r.ok]

RepoDecryptMetadata(encs, pathKey, metaKey) == DecryptLoop(encs, pathKey, metaKey, 1)

\* The order slices.SortFunc may leave: success descending.
SortedBySuccess(s) ==
    \A i, j \in 1..Len(s) : i < j => s[i].success >= s[j].success

Orderings(n) ==
    {p \in [1..n -> 1..n] : \A i, j \in 1..n : i # j => p[i] # p[j]}

\* EncryptorRepository.CheckEncryptors: the possible results.  slices.SortFunc
\* is not a stable sort, so every arrangement that is ordered by success
\* descending is a possible outcome.
RepoCheckEncryptors(encs, maxEncryptors) ==
    IF Len(encs) <= maxEncryptors
    THEN {[encryptors |-> encs, ret |-> FALSE]}
    ELSE {[encryptors |-> SubSeq([i \in 1..Len(encs) |-> encs[p[i]]], 1, maxEncryptors),
           ret |-> TRUE] :
             p \in {q \in Orderings(Len(encs)) :
                      SortedBySuccess([i \in 1..Len(encs) |-> encs[q[i]]])}}

(***************************************************************************)
(* The worker of one project, its objects and the API requests.            *)
(***************************************************************************)
Objs == {1, 2}
Reqs == {1, 2}
Chans == 1..MaxChans
RunSlots == 1..MaxRuns

\* The access grants that requests present.
RequestEncryptors == {{1}, {2}, {1, 2}}

\* The key the path and the metadata of object o are sealed with.
ObjKey(o) == o

Min(S) == CHOOSE x \in S : \A y \in S : x <= y

NoRow == [obj |-> 0, queuedAt |-> Nil]

IdleRun == [pc |-> "idle", rows |-> <<>>, cur |-> NoRow]

IdleReq ==
    [pc |-> "idle", done |-> 0, ret |-> FALSE, resp |-> "none",
     repoCalls |-> {}, cur |-> NoRow,
     returnedSince |-> FALSE, finishedSince |-> FALSE]

(***************************************************************************)
(* JSON values and the shallow / deep codec (util.go)                      *)
(*                                                                         *)
(* A Go string is either the JSON encoding of a value (Text) or a string   *)
(* that is not valid JSON (Plain).  A key is a name with a number of       *)
(* "json:" prefixes in front of it.  A map is nil or a set of key / value  *)
(* pairs with distinct keys.                                               *)
(***************************************************************************)
Names == {"a", "b"}

Plain(w) == [kind |-> "plain", w |-> w]

Text(v) == [kind |-> "text", of |-> v]

\* The JSON values of the model: strings, a number and null.
StringValue(str) == [t |-> "string", s |-> str]

NumberValue(n) == [t |-> "number", n |-> n]

NullValue == [t |-> "null"]

IsString(v) == v.t = "string"

DeepValues ==
    {StringValue(Plain("foo")), StringValue(Text(NumberValue(1))),
     NumberValue(1), NullValue}

DeepKeys == [pre : 0..MaxPrefix, name : Names]

\* The mark of a key that a map does not have.
Absent == [t |-> "absent"]

NilMap == [isNil |-> TRUE, kv |-> {}]

MakeMap(pairs) == [isNil |-> FALSE, kv |-> pairs]

\* len(meta) of a Go map: 0 for the nil map.
LenMap(meta) == IF meta.isNil THEN 0 ELSE Cardinality(meta.kv)

KeysOf(pairs) == {p.k : p \in pairs}

UniqueKeys(pairs) == \A p, q \in pairs : p.k = q.k => p = q

\* The maps a loop of assignments result[k] = v can build from the pairs:
\* with two assignments to one key the later one stays, and the iteration
\* order of a Go map is not fixed.
Assigned(pairs) ==
    {MakeMap(q) : q \in {q \in SUBSET pairs :
                           UniqueKeys(q) /\ KeysOf(q) = KeysOf(pairs)}}

\* The deep objects: every map over the keys, the empty map and the nil map.
DeepObjects ==
    {NilMap} \cup
    {MakeMap({[k |-> k, v |-> f[k]] : k \in {k \in DeepKeys : f[k] # Absent}}) :
        f \in [DeepKeys -> DeepValues \cup {Absent}]}

AddPrefixNone(k) == k

\* "json:" + k
AddPrefix(k) == [k EXCEPT !.pre = k.pre + 1]

\* strings.HasPrefix(k, "json:")
HasPrefix(k) == k.pre > 0

\* k[5:]
StripPrefix(k) == [k EXCEPT !.pre = k.pre - 1]

\* json.Marshal of a value.
Marshal(v) == Text(v)

\* json.Unmarshal of a string: fails on a string that is not JSON.
Unmarshal(str) ==
    IF str.kind = "text" THEN [err |-> FALSE, v |-> str.of]
    ELSE [err |-> TRUE, v |-> NullValue]

\* toShallowMetadata: the results the loop can produce (json.Marshal does
\* not fail on values that json.Unmarshal produced).
ToShallowMetadata(meta) ==
    IF LenMap(meta) = 0 THEN {NilMap}
    ELSE Assigned({IF IsString(p.v)
                   THEN [k |-> p.k, v |-> p.v.s]
                   ELSE [k |-> AddPrefix(p.k), v |-> Marshal(p.v)] : p \in meta.kv})

\* toDeepMetadata: the results the loop can produce.
ToDeepMetadata(meta) ==
    IF LenMap(meta) = 0 THEN {[err |-> FALSE, meta |-> NilMap]}
    ELSE IF \E p \in meta.kv : HasPrefix(p.k) /\ Unmarshal(p.v).err
    THEN {[err |-> TRUE, meta |-> NilMap]}
    ELSE {[err |-> FALSE, meta |-> m] :
            m \in Assigned({IF HasPrefix(p.k)
                            THEN [k |-> StripPrefix(p.k), v |-> Unmarshal(p.v).v]
                            ELSE [k |-> p.k, v |-> StringValue(p.v)] : p \in meta.kv})}

(***************************************************************************)
(* Containment queries: splitToJSONLeaves (util.go) and the query built    *)
(* by QueryMetadata                                                        *)
(***************************************************************************)
ObjectValue(pairs) == [t |-> "object", kv |-> pairs]

ArrayValue(elems) == [t |-> "array", elems |-> elems]

Scalars == {NumberValue(1)}

InnerObjects == {ObjectValue(q) : q \in SUBSET [k : Names, v : Scalars]}

Elements == Scalars \cup InnerObjects

Arrays ==
    {ArrayValue(e) : e \in UNION {[1..n -> Elements] : n \in 0..MaxArrayLen}}

\* The JSON objects of the model: {} and {"a": v} with v a scalar, an
\* object or an array of scalars and objects.
JSONObjects ==
    {ObjectValue({})} \cup
    {ObjectValue({[k |-> "a", v |-> v]}) : v \in Elements \cup Arrays}

\* The source has 10; the model's objects have up to
\* 2 * MaxArrayLen leaves.
MaxFindObjectsByClearMetadataQuerySize == 2

\* o @> m of JSONB, for an object o and the values inside it.
RECURSIVE Contains(_, _)
Contains(o, m) ==
    IF m.t = "object"
    THEN o.t = "object" /\ \A p \in m.kv :
                              \E q \in o.kv : q.k = p.k /\ Contains(q.v, p.v)
    ELSE IF m.t = "array"
    THEN o.t = "array" /\ \A i \in DOMAIN m.elems :
                             \E j \in DOMAIN o.elems :
                                 Contains(o.elems[j], m.elems[i])
    ELSE o = m

\* splitToLeafValues: the values handed to add.
RECURSIVE SplitToLeafValues(_)
SplitToLeafValues(obj) ==
    IF obj.t = "object"
    THEN UNION {{ObjectValue({[k |-> p.k, v |-> l]}) : l \in SplitToLeafValues(p.v)} :
                  p \in obj.kv}
    ELSE IF obj.t = "array"
    THEN UNION {{ArrayValue(<<l>>) : l \in SplitToLeafValues(obj.elems[i])} :
                  i \in DOMAIN obj.elems}
    ELSE {obj}

RECURSIVE SumOver(_, _)
SumOver(f, S) ==
    IF S = {} THEN 0
    ELSE LET x == CHOOSE x \in S : TRUE IN f[x] + SumOver(f, S \ {x})

\* The number of calls of add, which is the length of the slice that
\* splitToJSONLeaves returns.
RECURSIVE LenLeaves(_)
LenLeaves(obj) ==
    IF obj.t = "object"
    THEN SumOver([p \in obj.kv |-> LenLeaves(p.v)], obj.kv)
    ELSE IF obj.t = "array"
    THEN SumOver([i \in DOMAIN obj.elems |-> LenLeaves(obj.elems[i])],
                 DOMAIN obj.elems)
    ELSE 1

\* The WHERE clause on clear_metadata: the INTERSECT of one subquery
\* clear_metadata @> part for every part, and no condition without parts.
SelectedByParts(clear, parts) == \A l \in parts : Contains(clear, l)

\* The error sentinels of the package and the errors made from them.
ErrBadRequest == [kind |-> "BadRequest", StatusCode |-> 400]

ErrInternalError == [kind |-> "Internal", StatusCode |-> 500]

\* fmt.Errorf("%w: ...", e): the new error wraps e.
ErrorfW(e) == [wrapped |-> {e}]

\* fmt.Errorf("%s: ...", e): the new error has the text of e and wraps
\* nothing.
ErrorfS(e) == [wrapped |-> {}]

\* errors.As(err, &e) with e a *ErrorResponse.
ErrorsAs(err) == err.wrapped # {}

\* Server.errorResponse: the ErrorResponse that is written.
ErrorResponseOf(err) ==
    IF ~ErrorsAs(err) THEN ErrInternalError
    ELSE CHOOSE e \in err.wrapped : TRUE

(***************************************************************************)
(* One object of the objects table (MetabaseSearchRepository), the         *)
(* encryption of its metadata (UplinkEncryptor) and the handlers that read *)
(* and write it                                                            *)
(***************************************************************************)
\* objects.status: one of statusesCommitted, and the delete markers.
statusCommittedUnversioned == 3

deleteMarkerUnversioned == 5

deleteMarkerVersioned == 6

statusesCommitted == {3, 4}

\* The zero value of a byte variable.
ZeroByte == 0

\* The three encrypted fields: empty, or the sealing of a shallow map under
\* a key.  protobuf does not tell an empty map from a nil one.
EmptyBlob == [key |-> Nil, sh |-> NilMap]

Seal(k, sh) == [key |-> k, sh |-> IF LenMap(sh) = 0 THEN NilMap ELSE sh]

\* The column clear_metadata: NULL or the JSON text of a map.
NullColumn == [isNull |-> TRUE, json |-> NilMap]

MarshalClearNull(m) == NullColumn

\* UpdateMetadata and MigrateMetadata: NULL for a nil map, json.Marshal of
\* the map otherwise.
MarshalClear(m) ==
    IF m.isNil THEN NullColumn ELSE [isNull |-> FALSE, json |-> m]

\* parseJSON: nil for NULL.
ParseJSON(c) == IF c.isNull THEN NilMap ELSE c.json

\* The keys of the capabilities registered for the project, and the key of
\* the capability of the requests.
StoreEncryptors == {1}

\* UplinkEncryptor.EncryptMetadata with the capability of the request.
EncryptMetadata(clear) ==
    {[enc |-> Seal(k, sh), clear |-> clear] :
        k \in StoreEncryptors, sh \in ToShallowMetadata(clear)}

\* EncryptorRepository.DecryptMetadata on the metadata of a row, with
\* UplinkEncryptor.DecryptMetadata for every registered capability: the
\* error and the ObjectMetadata that come back.
DecryptRow(r) ==
    LET same == [enc |-> r.enc, clear |-> ParseJSON(r.clear)]
    IN  IF r.enc.key = Nil THEN {[err |-> FALSE, meta |-> same]}
        ELSE IF r.enc.key \notin StoreEncryptors
        THEN {[err |-> TRUE, meta |-> same]}
        ELSE IF r.enc.sh.isNil
        THEN {[err |-> FALSE, meta |-> [enc |-> r.enc, clear |-> NilMap]]}
        ELSE {[err |-> d.err,
               meta |-> IF d.err THEN same
                        ELSE [enc |-> r.enc, clear |-> d.meta]] :
                 d \in ToDeepMetadata(r.enc.sh)}

NoWrite == [op |-> "none", m |-> NilMap]

NoObject ==
    [exists |-> FALSE, status |-> ZeroByte, enc |-> EmptyBlob,
     clear |-> NullColumn, queuedAt |-> Nil, last |-> NoWrite]

Entry(pre, name, v) == MakeMap({[k |-> [pre |-> pre, name |-> name], v |-> v]})

\* The bodies of the PUT requests.
PutBodies ==
    {MakeMap({}),
     Entry(0, "a", StringValue(Plain("foo"))),
     Entry(0, "a", NumberValue(1)),
     Entry(1, "a", StringValue(Text(NumberValue(1))))}

ShallowEntry(pre, name, str) ==
    MakeMap({[k |-> [pre |-> pre, name |-> name], v |-> str]})

\* What an uplink client stores in the three encrypted fields.
ExternalBlobs ==
    {EmptyBlob,
     Seal(1, NilMap),
     Seal(1, ShallowEntry(0, "a", Plain("foo"))),
     Seal(1, ShallowEntry(1, "a", Text(NumberValue(1)))),
     Seal(2, ShallowEntry(0, "a", Plain("foo")))}

ErrNotFound == [kind |-> "NotFound", StatusCode |-> 404]

\* Server.jsonResponse(w, http.StatusOK, body).
JsonResponse(body) == [kind |-> "OK", StatusCode |-> 200, body |-> body]

\* Server.errorResponse(w, err): no metadata in the body.
ErrorResponse(err) ==
    [kind |-> ErrorResponseOf(err).kind,
     StatusCode |-> ErrorResponseOf(err).StatusCode, body |-> NilMap]

\* GetMetadata compares its local variable status, which Scan does not
\* write (the status of the row goes to obj.Status).
ScannedStatus(r) == ZeroByte

\* GetMetadata returns the row: there is a version that is not pending and
\* the status compared is not one of a delete marker.
GetMetadataFinds(r) ==
    /\ r.exists
    /\ ScannedStatus(r) \notin {deleteMarkerUnversioned, deleteMarkerVersioned}

\* The WHERE clause of UpdateMetadata.
UpdateMetadataApplies(r) == r.exists /\ r.status \in statusesCommitted

\* The SET clause of UpdateMetadata and of MigrateMetadata.
SetMetadata(r, meta, op) ==
    [r EXCEPT !.enc = meta.enc, !.clear = MarshalClear(meta.clear),
              !.queuedAt = Nil,
              !.last = op]

MigrateMetadataAlways(r, obj) == r.exists

MigrateMetadataNever(r, obj) == FALSE

\* The WHERE clause of MigrateMetadata: the row of the version read, with
\* metasearch_queued_at as read.
MigrateMetadataMatches(r, obj) == r.exists /\ r.queuedAt = obj.queuedAt

\* The ObjectInfo scanned from a row.
ScanRow(r) == [r EXCEPT !.clear = ParseJSON(r.clear)]

IdleMig == [pc |-> "idle", obj |-> ScanRow(NoObject),
            meta |-> [enc |-> EmptyBlob, clear |-> NilMap], ret |-> "none"]

IdleGet == [pc |-> "idle", obj |-> ScanRow(NoObject), found |-> FALSE,
            meta |-> [enc |-> EmptyBlob, clear |-> NilMap], ret |-> "none",
            since |-> FALSE,
            resp |-> [kind |-> "none", StatusCode |-> 0, body |-> NilMap]]

InitStore ==
    /\ objRow = NoObject
    /\ mig = IdleMig
    /\ get = IdleGet

\* The codec, the query and the object store are not part of the
\* specifications of the repository and of the worker.
InitAux ==
    /\ calc = Nil
    /\ objRow = Nil
    /\ mig = Nil
    /\ get = Nil

InitRepo ==
    /\ encryptors = <<>>
    /\ call = [op |-> "New", arg |-> {}, ret |-> FALSE]

InitWorker ==
    /\ workerExists = FALSE
    /\ startTime = Nil
    /\ running = FALSE
    /\ subscribers = <<>>
    /\ chanBuf = [c \in Chans |-> 0]
    /\ chanSent = [c \in Chans |-> 0]
    /\ blocked = FALSE
    /\ run = [g \in RunSlots |-> IdleRun]
    /\ req = [r \in Reqs |-> IdleReq]
    /\ rescanPending = FALSE

Init ==
    /\ InitRepo
    /\ InitWorker
    /\ InitAux
    /\ objects = [o \in Objs |-> [queuedAt |-> Nil]]
    /\ now = 1

\* Any finite change queue, and no external write from then on.
InitDrain ==
    /\ InitRepo
    /\ InitWorker
    /\ InitAux
    /\ objects \in [Objs -> [queuedAt : 0..MaxTime]]
    /\ now = MaxTime + 1

(***************************************************************************)
(* The repository on its own: calls are atomic (the mutex).                *)
(***************************************************************************)
AddEncryptor(newEncryptor) ==
    LET r == RepoAddEncryptor(encryptors, newEncryptor)
    IN  /\ Len(r.encryptors) <= MaxEntries
        /\ encryptors' = r.encryptors
        /\ call' = [op |-> "AddEncryptor", arg |-> newEncryptor, ret |-> r.ret]
        /\ UNCHANGED <<workerVars, auxVars>>

DecryptMetadata(pathKey, metaKey) ==
    LET r == RepoDecryptMetadata(encryptors, pathKey, metaKey)
    IN  /\ \A i \in 1..Len(encryptors) : encryptors[i].total < MaxCount
        /\ encryptors' = r.encryptors
        /\ call' = [op |-> "DecryptMetadata", arg |-> {}, ret |-> r.ok]
        /\ UNCHANGED <<workerVars, auxVars>>

CheckEncryptors(maxEncryptors) ==
    \E r \in RepoCheckEncryptors(encryptors, maxEncryptors) :
        /\ encryptors' = r.encryptors
        /\ call' = [op |-> "CheckEncryptors", arg |-> {}, ret |-> r.ret]
        /\ UNCHANGED <<workerVars, auxVars>>

NextAdd == \E e \in Encryptors : AddEncryptor(e)

SpecAdd == Init /\ [][NextAdd]_vars

NextRepo ==
    \/ \E e \in Encryptors : AddEncryptor(e)
    \/ \E pk, mk \in Keys : DecryptMetadata(pk, mk)
    \/ \E n \in 1..MaxEntries : CheckEncryptors(n)

SpecRepo == Init /\ [][NextRepo]_vars

(***************************************************************************)
(* ObjectMigratorWorker                                                    *)
(***************************************************************************)
\* w.mutex can be taken: no goroutine is stuck in a send while holding it.
MutexFree == ~blocked

StartAlways(r) == TRUE

\* ObjectMigratorWorker.Start: "if w.running { return }".
StartAllowed(r) == ~r

FreeRunSlots == {g \in RunSlots : run[g].pc = "idle"}

\* ObjectMigratorWorker.Start: sets running and starts the goroutine.
WorkerStart ==
    IF StartAllowed(running) /\ FreeRunSlots # {}
    THEN /\ running' = TRUE
         /\ run' = [run EXCEPT ![Min(FreeRunSlots)].pc = "spawned"]
    ELSE UNCHANGED <<running, run>>

\* Variant without the comparison: the timestamp of the object is stored.
UpdateStartTimeAlways(st, row) == row.queuedAt

\* ObjectMigratorWorker.updateStartTime.
UpdateStartTime(st, row) ==
    IF st = Nil \/ st < row.queuedAt THEN row.queuedAt ELSE st

\* MetabaseSearchRepository.GetObjectsForMigration: the rows the query can
\* deliver, ordered by metasearch_queued_at (rows with equal timestamps in
\* any order).
GetObjectsForMigration(st) ==
    LET Q == {o \in Objs : /\ objects[o].queuedAt # Nil
                           /\ (st = Nil \/ objects[o].queuedAt >= st)}
        n == Cardinality(Q)
    IN  {[i \in 1..n |-> [obj |-> f[i], queuedAt |-> objects[f[i]].queuedAt]] :
           f \in {h \in [1..n -> Q] :
                    /\ \A i, j \in 1..n : i # j => h[i] # h[j]
                    /\ \A i, j \in 1..n :
                          i < j => objects[h[i]].queuedAt <= objects[h[j]].queuedAt}}

\* MigrateObject up to the write: DecryptMetadata with the repository and,
\* on success, CheckEncryptors(maxEncryptorsPerProject).
DecryptOutcomes(row) ==
    LET r == RepoDecryptMetadata(encryptors, ObjKey(row.obj), ObjKey(row.obj))
    IN  IF r.ok
        THEN {[encryptors |-> c.encryptors, ok |-> TRUE] :
                c \in RepoCheckEncryptors(r.encryptors, maxEncryptorsPerProject)}
        ELSE {[encryptors |-> r.encryptors, ok |-> FALSE]}

\* MetabaseSearchRepository.MigrateMetadata: the UPDATE affects the row only
\* if metasearch_queued_at still has the value that was read.
MigrateMetadataApplies(row) == objects[row.obj].queuedAt = row.queuedAt

\* w.subscribers = nil
SubscribersKept(subs) == subs

SubscribersAfterSignal(subs) == <<>>

\* "for _, subscriber := range w.subscribers { subscriber <- true }":
\* the sends from index i on.  A send to a full channel blocks.
RECURSIVE SendLoop(_, _, _, _)
SendLoop(subs, buf, sent, i) ==
    IF i > Len(subs)
    THEN [buf |-> buf, sent |-> sent, blocked |-> FALSE]
    ELSE IF buf[subs[i]] >= 1
    THEN [buf |-> buf, sent |-> sent, blocked |-> TRUE]
    ELSE SendLoop(subs, [buf EXCEPT ![subs[i]] = 1],
                  [sent EXCEPT ![subs[i]] = @ + 1], i + 1)

\* A channel that neither the subscribers nor a request refers to is garbage:
\* its contents are dropped.
Collect(f, subs, rq) ==
    [c \in Chans |->
       IF \/ \E i \in 1..Len(subs) : subs[i] = c
          \/ \E r \in Reqs : rq[r].done = c
       THEN f[c] ELSE 0]

\* The requests that have registered a waiter and have not returned from
\* WaitForProject.
Waiting(r) == req[r].pc \in {"start", "select"}

\* ObjectMigrator.Start: one round of the ticker loop.
Tick ==
    /\ workerExists
    /\ MutexFree
    /\ WorkerStart
    /\ UNCHANGED <<repoVars, workerExists, startTime, subscribers, chanBuf,
                   chanSent, blocked, req, objects, now, rescanPending>>
    /\ UNCHANGED auxVars

\* Variant in which the callback returns false: the loop over the rows ends.
AbortScan(rows) == <<>>

\* MigrateProject: the callback drops the error of MigrateObject and returns
\* true, so GetObjectsForMigration goes on with the rows that are left.
ContinueScan(rows) == rows

\* The goroutine calls MigrateProject: startTime is read and the query runs.
RunQuery(g) ==
    /\ run[g].pc = "spawned"
    /\ \E rows \in GetObjectsForMigration(startTime) :
          run' = [run EXCEPT ![g] = [pc |-> "scan", rows |-> rows, cur |-> NoRow]]
    /\ rescanPending' = FALSE
    /\ UNCHANGED <<repoVars, workerExists, startTime, running, subscribers,
                   chanBuf, chanSent, blocked, req, objects, now>>
    /\ UNCHANGED auxVars

\* The callback takes the next row: MigrateObject decrypts it.
RunDecrypt(g) ==
    /\ run[g].pc = "scan"
    /\ run[g].rows # <<>>
    /\ LET row == Head(run[g].rows)
       IN  \E d \in DecryptOutcomes(row) :
              /\ encryptors' = d.encryptors
              /\ run' = [run EXCEPT ![g] =
                           [pc |-> IF d.ok THEN "mo_write" ELSE "mo_fail",
                            rows |-> Tail(run[g].rows), cur |-> row]]
    /\ UNCHANGED <<call, workerExists, startTime, running, subscribers, chanBuf,
                   chanSent, blocked, req, objects, now, rescanPending>>
    /\ UNCHANGED auxVars

\* MigrateObject, decryption failed: updateStartTime, the error is returned
\* and the callback continues the scan.
RunFail(g) ==
    /\ run[g].pc = "mo_fail"
    /\ MutexFree
    /\ startTime' = UpdateStartTime(startTime, run[g].cur)
    /\ run' = [run EXCEPT ![g].pc = "scan", ![g].cur = NoRow,
                          ![g].rows = ContinueScan(@)]
    /\ UNCHANGED <<repoVars, workerExists, running, subscribers, chanBuf,
                   chanSent, blocked, req, objects, now, rescanPending>>
    /\ UNCHANGED auxVars

\* MigrateObject: repo.MigrateMetadata; ErrNotFound ends MigrateObject.
RunWrite(g) ==
    /\ run[g].pc = "mo_write"
    /\ IF MigrateMetadataApplies(run[g].cur)
       THEN /\ objects' = [objects EXCEPT ![run[g].cur.obj].queuedAt = Nil]
            /\ run' = [run EXCEPT ![g].pc = "mo_update"]
       ELSE /\ objects' = objects
            /\ run' = [run EXCEPT ![g].pc = "scan", ![g].cur = NoRow,
                                  ![g].rows = ContinueScan(@)]
    /\ UNCHANGED <<repoVars, workerExists, startTime, running, subscribers,
                   chanBuf, chanSent, blocked, req, now, rescanPending>>
    /\ UNCHANGED auxVars

\* MigrateObject, metadata migrated: updateStartTime.
RunUpdate(g) ==
    /\ run[g].pc = "mo_update"
    /\ MutexFree
    /\ startTime' = UpdateStartTime(startTime, run[g].cur)
    /\ run' = [run EXCEPT ![g].pc = "scan", ![g].cur = NoRow,
                          ![g].rows = ContinueScan(@)]
    /\ UNCHANGED <<repoVars, workerExists, running, subscribers, chanBuf,
                   chanSent, blocked, req, objects, now, rescanPending>>
    /\ UNCHANGED auxVars

\* No row is left: MigrateProject returns.
RunReturn(g) ==
    /\ run[g].pc = "scan"
    /\ run[g].rows = <<>>
    /\ run' = [run EXCEPT ![g].pc = "finish"]
    /\ req' = [r \in Reqs |->
                 IF Waiting(r) THEN [req[r] EXCEPT !.returnedSince = TRUE]
                 ELSE req[r]]
    /\ UNCHANGED <<repoVars, workerExists, startTime, running, subscribers,
                   chanBuf, chanSent, blocked, objects, now, rescanPending>>
    /\ UNCHANGED auxVars

\* The goroutine, after MigrateProject: under the mutex every subscriber is
\* sent a value, the list is dropped and running is cleared.
RunFinish(g) ==
    /\ run[g].pc = "finish"
    /\ MutexFree
    /\ LET s == SendLoop(subscribers, chanBuf, chanSent, 1)
       IN  /\ blocked' = s.blocked
           /\ IF s.blocked
              THEN /\ chanBuf' = s.buf
                   /\ chanSent' = s.sent
                   /\ UNCHANGED <<subscribers, running, run, req>>
              ELSE /\ subscribers' = SubscribersAfterSignal(subscribers)
                   /\ running' = FALSE
                   /\ run' = [run EXCEPT ![g] = IdleRun]
                   /\ req' = [r \in Reqs |->
                                IF Waiting(r)
                                THEN [req[r] EXCEPT !.finishedSince = TRUE]
                                ELSE req[r]]
                   /\ chanBuf' = Collect(s.buf, subscribers', req')
                   /\ chanSent' = Collect(s.sent, subscribers', req')
    /\ UNCHANGED <<repoVars, workerExists, startTime, objects, now, rescanPending>>
    /\ UNCHANGED auxVars

RunStep(g) ==
    \/ RunQuery(g)
    \/ RunDecrypt(g)
    \/ RunFail(g)
    \/ RunWrite(g)
    \/ RunUpdate(g)
    \/ RunReturn(g)
    \/ RunFinish(g)

(***************************************************************************)
(* Server: validateRequest and the handlers                                *)
(***************************************************************************)
Respond(r, resp) == [req[r] EXCEPT !.pc = "done", !.resp = resp]

\* Auth.Authenticate fails: validateRequest returns the error.
ReqAuthFail(r) ==
    /\ req[r].pc = "idle"
    /\ req' = [req EXCEPT ![r] = Respond(r, "AuthorizationFailed")]
    /\ UNCHANGED <<repoVars, workerExists, startTime, running, subscribers,
                   chanBuf, chanSent, blocked, run, objects, now, rescanPending>>
    /\ UNCHANGED auxVars

\* The channels that neither the subscribers nor a request refers to.
FreeChans ==
    {c \in Chans : /\ \A i \in 1..Len(subscribers) : subscribers[i] # c
                   /\ \A r \in Reqs : req[r].done # c}

\* Auth.Authenticate returns encryptor e; ObjectMigrator.AddProject creates
\* the worker if needed and calls ObjectMigratorWorker.AddEncryptor, which
\* clears startTime if the repository reports a change.  A request is
\* admitted only while a channel is left for its wait.
ReqAddProject(r, e) ==
    /\ req[r].pc = "idle"
    /\ Cardinality(FreeChans) >
          Cardinality({q \in Reqs : req[q].pc = "subscribe"})
    /\ MutexFree
    /\ LET a == RepoAddEncryptor(encryptors, e)
       IN  /\ encryptors' = a.encryptors
           /\ startTime' = IF a.ret THEN Nil ELSE startTime
           /\ rescanPending' = IF a.ret THEN TRUE ELSE rescanPending
    /\ workerExists' = TRUE
    /\ req' = [req EXCEPT ![r].pc = "subscribe"]
    /\ UNCHANGED <<call, running, subscribers, chanBuf, chanSent, blocked,
                   run, objects, now>>
    /\ UNCHANGED auxVars

MakeChanStale(buf, c) == [buf EXCEPT ![c] = 1]

\* make(chan bool, 1): channel c is created empty.
MakeChan(buf, c) == [buf EXCEPT ![c] = 0]

\* ObjectMigratorWorker.WaitForProject: a new channel is appended to the
\* subscribers under the mutex.
ReqSubscribe(r) ==
    /\ req[r].pc = "subscribe"
    /\ MutexFree
    /\ FreeChans # {}
    /\ LET c == Min(FreeChans)
       IN  /\ chanBuf' = MakeChan(chanBuf, c)
           /\ chanSent' = [chanSent EXCEPT ![c] = 0]
           /\ subscribers' = Append(subscribers, c)
           /\ req' = [req EXCEPT ![r].pc = "start", ![r].done = c,
                                 ![r].returnedSince = FALSE,
                                 ![r].finishedSince = FALSE]
    /\ UNCHANGED <<repoVars, workerExists, startTime, running, blocked, run,
                   objects, now, rescanPending>>
    /\ UNCHANGED auxVars

\* ObjectMigratorWorker.WaitForProject: w.Start().
ReqStart(r) ==
    /\ req[r].pc = "start"
    /\ MutexFree
    /\ WorkerStart
    /\ req' = [req EXCEPT ![r].pc = "select"]
    /\ UNCHANGED <<repoVars, workerExists, startTime, subscribers, chanBuf,
                   chanSent, blocked, objects, now, rescanPending>>
    /\ UNCHANGED auxVars

GateIgnored(ret) == TRUE

\* validateRequest: "if !s.Migrator.WaitForProject(...) { return error }".
GatePassed(ret) == ret

\* WaitForProject has returned ret: the request no longer holds the channel.
AfterGate(r, ret) ==
    LET q == [req[r] EXCEPT !.ret = ret, !.done = 0,
                            !.returnedSince = FALSE, !.finishedSince = FALSE]
    IN  IF GatePassed(ret)
        THEN [q EXCEPT !.pc = "handler"]
        ELSE [q EXCEPT !.pc = "done", !.resp = "MigrationInProgress"]

\* The select takes the value of the done channel: WaitForProject returns true.
ReqWaitDone(r) ==
    /\ req[r].pc = "select"
    /\ chanBuf[req[r].done] >= 1
    /\ req' = [req EXCEPT ![r] = AfterGate(r, TRUE)]
    /\ chanBuf' = Collect([chanBuf EXCEPT ![req[r].done] = @ - 1],
                          subscribers, req')
    /\ chanSent' = Collect(chanSent, subscribers, req')
    /\ UNCHANGED <<repoVars, workerExists, startTime, running, subscribers,
                   blocked, run, objects, now, rescanPending>>
    /\ UNCHANGED auxVars

\* The timeout fires and the select takes it: WaitForProject returns false.
ReqWaitTimeout(r) ==
    /\ req[r].pc = "select"
    /\ req' = [req EXCEPT ![r] = AfterGate(r, FALSE)]
    /\ chanBuf' = Collect(chanBuf, subscribers, req')
    /\ chanSent' = Collect(chanSent, subscribers, req')
    /\ UNCHANGED <<repoVars, workerExists, startTime, running, subscribers,
                   blocked, run, objects, now, rescanPending>>
    /\ UNCHANGED auxVars

\* EncryptPath or Authorizer.Authorize fails.
ReqAuthorizeFail(r) ==
    /\ req[r].pc = "handler"
    /\ req' = [req EXCEPT ![r] = Respond(r, "AuthorizationFailed")]
    /\ UNCHANGED <<repoVars, workerExists, startTime, running, subscribers,
                   chanBuf, chanSent, blocked, run, objects, now, rescanPending>>
    /\ UNCHANGED auxVars

\* HandleGet: Repo.GetMetadata; a queued object is migrated inline.
ReqGet(r, o) ==
    /\ req[r].pc = "handler"
    /\ req' = [req EXCEPT ![r] =
                 IF objects[o].queuedAt # Nil
                 THEN [req[r] EXCEPT !.pc = "mo_decrypt",
                                     !.repoCalls = @ \cup {"GetMetadata"},
                                     !.cur = [obj |-> o, queuedAt |-> objects[o].queuedAt]]
                 ELSE [req[r] EXCEPT !.pc = "done", !.resp = "OK",
                                     !.repoCalls = @ \cup {"GetMetadata"}]]
    /\ UNCHANGED <<repoVars, workerExists, startTime, running, subscribers,
                   chanBuf, chanSent, blocked, run, objects, now, rescanPending>>
    /\ UNCHANGED auxVars

\* HandleGet: Migrator.MigrateObject decrypts the object.
ReqDecrypt(r) ==
    /\ req[r].pc = "mo_decrypt"
    /\ \E d \in DecryptOutcomes(req[r].cur) :
          /\ encryptors' = d.encryptors
          /\ req' = [req EXCEPT ![r].pc = IF d.ok THEN "mo_write" ELSE "mo_fail"]
    /\ UNCHANGED <<call, workerExists, startTime, running, subscribers, chanBuf,
                   chanSent, blocked, run, objects, now, rescanPending>>
    /\ UNCHANGED auxVars

\* HandleGet: MigrateObject failed to decrypt: updateStartTime; the error is
\* dropped and the stored clear metadata is sent.
ReqFail(r) ==
    /\ req[r].pc = "mo_fail"
    /\ MutexFree
    /\ startTime' = UpdateStartTime(startTime, req[r].cur)
    /\ req' = [req EXCEPT ![r] = Respond(r, "OK")]
    /\ UNCHANGED <<repoVars, workerExists, running, subscribers, chanBuf,
                   chanSent, blocked, run, objects, now, rescanPending>>
    /\ UNCHANGED auxVars

\* HandleGet: MigrateObject calls repo.MigrateMetadata.
ReqWrite(r) ==
    /\ req[r].pc = "mo_write"
    /\ IF MigrateMetadataApplies(req[r].cur)
       THEN /\ objects' = [objects EXCEPT ![req[r].cur.obj].queuedAt = Nil]
            /\ req' = [req EXCEPT ![r].pc = "mo_update",
                                  ![r].repoCalls = @ \cup {"MigrateMetadata"}]
       ELSE /\ objects' = objects
            /\ req' = [req EXCEPT ![r] =
                         [Respond(r, "OK") EXCEPT
                            !.repoCalls = @ \cup {"MigrateMetadata"}]]
    /\ UNCHANGED <<repoVars, workerExists, startTime, running, subscribers,
                   chanBuf, chanSent, blocked, run, now, rescanPending>>
    /\ UNCHANGED auxVars

\* HandleGet: MigrateObject, metadata migrated: updateStartTime.
ReqUpdateStartTime(r) ==
    /\ req[r].pc = "mo_update"
    /\ MutexFree
    /\ startTime' = UpdateStartTime(startTime, req[r].cur)
    /\ req' = [req EXCEPT ![r] = Respond(r, "OK")]
    /\ UNCHANGED <<repoVars, workerExists, running, subscribers, chanBuf,
                   chanSent, blocked, run, objects, now, rescanPending>>
    /\ UNCHANGED auxVars

\* HandleUpdate: Repo.UpdateMetadata sets the metadata and clears
\* metasearch_queued_at.
ReqUpdate(r, o) ==
    /\ req[r].pc = "handler"
    /\ objects' = [objects EXCEPT ![o].queuedAt = Nil]
    /\ req' = [req EXCEPT ![r] =
                 [Respond(r, "OK") EXCEPT !.repoCalls = @ \cup {"UpdateMetadata"}]]
    /\ UNCHANGED <<repoVars, workerExists, startTime, running, subscribers,
                   chanBuf, chanSent, blocked, run, now, rescanPending>>
    /\ UNCHANGED auxVars

\* HandleDelete: Repo.DeleteMetadata is UpdateMetadata with empty metadata.
ReqDelete(r, o) ==
    /\ req[r].pc = "handler"
    /\ objects' = [objects EXCEPT ![o].queuedAt = Nil]
    /\ req' = [req EXCEPT ![r] =
                 [Respond(r, "OK") EXCEPT !.repoCalls = @ \cup {"DeleteMetadata"}]]
    /\ UNCHANGED <<repoVars, workerExists, startTime, running, subscribers,
                   chanBuf, chanSent, blocked, run, now, rescanPending>>
    /\ UNCHANGED auxVars

\* HandleQuery: Repo.QueryMetadata.
ReqQuery(r) ==
    /\ req[r].pc = "handler"
    /\ req' = [req EXCEPT ![r] =
                 [Respond(r, "OK") EXCEPT !.repoCalls = @ \cup {"QueryMetadata"}]]
    /\ UNCHANGED <<repoVars, workerExists, startTime, running, subscribers,
                   chanBuf, chanSent, blocked, run, objects, now, rescanPending>>
    /\ UNCHANGED auxVars

\* The response has been written: the handler returns.
ReqReturn(r) ==
    /\ req[r].pc = "done"
    /\ req' = [req EXCEPT ![r] = IdleReq]
    /\ UNCHANGED <<repoVars, workerExists, startTime, running, subscribers,
                   chanBuf, chanSent, blocked, run, objects, now, rescanPending>>
    /\ UNCHANGED auxVars

\* An uplink client writes object o: the row gets the current timestamp in
\* metasearch_queued_at.  T is the time of the last write.
ExternalWrite(o, T) ==
    /\ now <= T
    /\ objects' = [objects EXCEPT ![o].queuedAt = now]
    /\ now' = now + 1
    /\ UNCHANGED <<repoVars, workerExists, startTime, running, subscribers,
                   chanBuf, chanSent, blocked, run, req, rescanPending>>
    /\ UNCHANGED auxVars

\* The steps of a request from WaitForProject on.
ReqStep(r) ==
    \/ ReqSubscribe(r)
    \/ ReqStart(r)
    \/ ReqWaitDone(r)
    \/ ReqWaitTimeout(r)
    \/ ReqAuthorizeFail(r)
    \/ \E o \in Objs : ReqGet(r, o)
    \/ ReqDecrypt(r)
    \/ ReqFail(r)
    \/ ReqWrite(r)
    \/ ReqUpdateStartTime(r)
    \/ ReqQuery(r)
    \/ ReqReturn(r)

\* The steps of the system with requests R presenting the access grants E,
\* and external writes up to time T.
NextOf(R, E, T) ==
    \/ Tick
    \/ \E g \in RunSlots : RunStep(g)
    \/ \E r \in R : ReqAuthFail(r)
    \/ \E r \in R, e \in E : ReqAddProject(r, e)
    \/ \E r \in R : ReqStep(r)
    \/ \E r \in R, o \in Objs : ReqUpdate(r, o)
    \/ \E r \in R, o \in Objs : ReqDelete(r, o)
    \/ \E o \in Objs : ExternalWrite(o, T)

\* The scheduler runs every request goroutine that can take a step.
FairRequests == \A r \in Reqs : WF_vars(ReqStep(r))

\* The ticker fires and the scheduler runs every goroutine that can take a
\* step; requests arrive or not.
Fairness ==
    /\ WF_vars(Tick)
    /\ \A g \in RunSlots : WF_vars(RunStep(g))
    /\ FairRequests

\* One request at a time, with any of the access grants.
NextWorker == NextOf({1}, RequestEncryptors, MaxTime)

SpecWorker == Init /\ [][NextWorker]_vars

\* Concurrent requests that present the same access grant, and one external
\* write.
NextGate == NextOf(Reqs, {{2}}, 1)

SpecGate == Init /\ [][NextGate]_vars /\ FairRequests

\* No write after the initial state: GET and search requests, the ticker
\* and the runs.
NextDrain ==
    \/ Tick
    \/ \E g \in RunSlots : RunStep(g)
    \/ ReqAuthFail(1)
    \/ \E e \in RequestEncryptors : ReqAddProject(1, e)
    \/ ReqStep(1)

SpecDrain == InitDrain /\ [][NextDrain]_vars /\ Fairness

\* A request that arrives after the external writes, which end at time T:
\* ObjectMigrator.AddProject with the capability of the request.
SearchAddProject(r, e, T) ==
    /\ now > T
    /\ ReqAddProject(r, e)

\* Request 1 arrives at any time; request 2 arrives after the external
\* write.  Both present the access grant that decrypts object 2.
NextSearch ==
    \/ Tick
    \/ \E g \in RunSlots : RunStep(g)
    \/ \E r \in Reqs : ReqAuthFail(r)
    \/ ReqAddProject(1, {2})
    \/ SearchAddProject(2, {2}, 1)
    \/ \E r \in Reqs : ReqStep(r)
    \/ \E r \in Reqs, o \in Objs : ReqUpdate(r, o)
    \/ \E r \in Reqs, o \in Objs : ReqDelete(r, o)
    \/ \E o \in Objs : ExternalWrite(o, 1)

SpecSearch == Init /\ [][NextSearch]_vars

(***************************************************************************)
(* The codec on its own: an object is converted to the shallow form and    *)
(* back.                                                                   *)
(***************************************************************************)
InitCodec ==
    /\ InitRepo
    /\ InitWorker
    /\ objects = [o \in Objs |-> [queuedAt |-> Nil]]
    /\ now = 1
    /\ objRow = Nil
    /\ mig = Nil
    /\ get = Nil
    /\ \E x \in DeepObjects :
          calc = [op |-> "input", x |-> x, shallow |-> NilMap,
                  err |-> FALSE, deep |-> NilMap]

CalcToShallow ==
    /\ calc.op = "input"
    /\ \E sh \in ToShallowMetadata(calc.x) :
          calc' = [calc EXCEPT !.op = "toShallowMetadata", !.shallow = sh]
    /\ UNCHANGED <<repoVars, workerVars, storeVars>>

CalcToDeep ==
    /\ calc.op = "toShallowMetadata"
    /\ \E d \in ToDeepMetadata(calc.shallow) :
          calc' = [calc EXCEPT !.op = "toDeepMetadata", !.err = d.err,
                               !.deep = d.meta]
    /\ UNCHANGED <<repoVars, workerVars, storeVars>>

NextCodec == CalcToShallow \/ CalcToDeep

SpecCodec == InitCodec /\ [][NextCodec]_vars

(***************************************************************************)
(* One search on one stored object: QueryMetadata with the match object    *)
(* of the request, and the response of HandleQuery.                        *)
(***************************************************************************)
InitQuery ==
    /\ InitRepo
    /\ InitWorker
    /\ objects = [o \in Objs |-> [queuedAt |-> Nil]]
    /\ now = 1
    /\ objRow = Nil
    /\ mig = Nil
    /\ get = Nil
    /\ \E m \in JSONObjects, o \in JSONObjects :
          calc = [op |-> "input", match |-> m, clear |-> o, parts |-> {},
                  n |-> 0, executed |-> FALSE, selected |-> FALSE,
                  resp |-> [kind |-> "none", StatusCode |-> 0]]

\* QueryMetadata up to the check of the number of parts.
QuerySplit ==
    /\ calc.op = "input"
    /\ calc' = [calc EXCEPT !.op = "splitToJSONLeaves",
                            !.parts = SplitToLeafValues(calc.match),
                            !.n = LenLeaves(calc.match)]
    /\ UNCHANGED <<repoVars, workerVars, storeVars>>

\* More parts than allowed: QueryMetadata returns an error, searchMetadata
\* returns it and HandleQuery hands it to errorResponse.
QueryTooMany ==
    /\ calc.op = "splitToJSONLeaves"
    /\ calc.n > MaxFindObjectsByClearMetadataQuerySize
    /\ calc' = [calc EXCEPT !.op = "errorResponse",
                            !.resp = ErrorResponseOf(ErrorfS(ErrBadRequest))]
    /\ UNCHANGED <<repoVars, workerVars, storeVars>>

\* The query is built from the parts and executed.
QueryExecute ==
    /\ calc.op = "splitToJSONLeaves"
    /\ calc.n <= MaxFindObjectsByClearMetadataQuerySize
    /\ calc' = [calc EXCEPT !.op = "QueryMetadata", !.executed = TRUE,
                            !.selected = SelectedByParts(calc.clear, calc.parts)]
    /\ UNCHANGED <<repoVars, workerVars, storeVars>>

\* HandleQuery answers with the result.
QueryRespond ==
    /\ calc.op = "QueryMetadata"
    /\ calc' = [calc EXCEPT !.op = "jsonResponse",
                            !.resp = [kind |-> "OK", StatusCode |-> 200]]
    /\ UNCHANGED <<repoVars, workerVars, storeVars>>

NextQuery == QuerySplit \/ QueryTooMany \/ QueryExecute \/ QueryRespond

SpecQuery == InitQuery /\ [][NextQuery]_vars

(***************************************************************************)
(* One object under external writes, server PUT and DELETE, a background   *)
(* migration and a GET with its inline migration.                          *)
(***************************************************************************)
storeFrame ==
    <<repoVars, workerExists, startTime, running, subscribers, chanBuf,
      chanSent, blocked, run, req, objects, rescanPending, calc>>

Written(g) == [g EXCEPT !.since = TRUE]

\* An uplink client writes the metadata of the object, in place or as a new
\* version; the database sets metasearch_queued_at to the current time.
ExternalPut(blob, inPlace) ==
    /\ now <= MaxTime
    /\ objRow' =
          [exists |-> TRUE, status |-> statusCommittedUnversioned,
           enc |-> blob,
           clear |-> IF inPlace /\ UpdateMetadataApplies(objRow)
                     THEN objRow.clear ELSE NullColumn,
           queuedAt |-> now, last |-> [op |-> "external", m |-> NilMap]]
    /\ now' = now + 1
    /\ get' = Written(get)
    /\ UNCHANGED <<storeFrame, mig>>

\* An uplink client deletes the object: the latest version is a delete
\* marker.
ExternalDelete ==
    /\ now <= MaxTime
    /\ UpdateMetadataApplies(objRow)
    /\ objRow' =
          [exists |-> TRUE, status |-> deleteMarkerUnversioned,
           enc |-> EmptyBlob, clear |-> NullColumn, queuedAt |-> now,
           last |-> [op |-> "external", m |-> NilMap]]
    /\ now' = now + 1
    /\ get' = Written(get)
    /\ UNCHANGED <<storeFrame, mig>>

\* HandleUpdate with body m, answered with 204.  When UpdateMetadata
\* affects no row the answer is NotFound and nothing changes.
HandleUpdate(m) ==
    /\ UpdateMetadataApplies(objRow)
    /\ \E meta \in EncryptMetadata(m) :
          objRow' = SetMetadata(objRow, meta, [op |-> "PUT", m |-> m])
    /\ get' = Written(get)
    /\ UNCHANGED <<storeFrame, now, mig>>

\* HandleDelete, answered with 204: DeleteMetadata is UpdateMetadata with
\* ObjectMetadata{}.
HandleDelete ==
    /\ UpdateMetadataApplies(objRow)
    /\ objRow' = SetMetadata(objRow, [enc |-> EmptyBlob, clear |-> NilMap],
                             [op |-> "DELETE", m |-> NilMap])
    /\ get' = Written(get)
    /\ UNCHANGED <<storeFrame, now, mig>>

\* A background run reads the queued row and MigrateObject decrypts it.
MigRead ==
    /\ mig.pc = "idle"
    /\ objRow.exists
    /\ objRow.queuedAt # Nil
    /\ \E d \in DecryptRow(objRow) :
          mig' = IF d.err
                 THEN [IdleMig EXCEPT !.obj = ScanRow(objRow),
                                      !.ret = "error"]
                 ELSE [pc |-> "write", obj |-> ScanRow(objRow), meta |-> d.meta,
                       ret |-> "none"]
    /\ UNCHANGED <<storeFrame, now, objRow, get>>

\* MigrateObject of the background run calls MigrateMetadata.
MigWrite ==
    /\ mig.pc = "write"
    /\ IF MigrateMetadataMatches(objRow, mig.obj)
       THEN /\ objRow' = SetMetadata(objRow, mig.meta,
                                     [op |-> "migrate", m |-> NilMap])
            /\ mig' = [mig EXCEPT !.pc = "idle", !.ret = "ok"]
       ELSE /\ mig' = [mig EXCEPT !.pc = "idle", !.ret = "NotFound"]
            /\ UNCHANGED objRow
    /\ UNCHANGED <<storeFrame, now, get>>

\* HandleGet up to the decryption of MigrateObject.
GetRead ==
    /\ get.pc \in {"idle", "done"}
    /\ LET seen == [IdleGet EXCEPT !.obj = ScanRow(objRow),
                                   !.found = GetMetadataFinds(objRow)]
       IN  IF ~GetMetadataFinds(objRow)
           THEN get' = [seen EXCEPT !.pc = "done",
                           !.resp = ErrorResponse(ErrorfW(ErrNotFound))]
           ELSE IF objRow.queuedAt = Nil
           THEN get' = [seen EXCEPT !.pc = "done",
                           !.resp = JsonResponse(ParseJSON(objRow.clear))]
           ELSE \E d \in DecryptRow(objRow) :
                   get' = IF d.err
                          THEN [seen EXCEPT !.pc = "done", !.ret = "error",
                                   !.resp = JsonResponse(ParseJSON(objRow.clear))]
                          ELSE [seen EXCEPT !.pc = "write", !.meta = d.meta]
    /\ UNCHANGED <<storeFrame, now, objRow, mig>>

\* MigrateObject of HandleGet calls MigrateMetadata, and HandleGet answers
\* with the decrypted metadata whatever MigrateMetadata returns.
GetWrite ==
    /\ get.pc = "write"
    /\ IF MigrateMetadataMatches(objRow, get.obj)
       THEN /\ objRow' = SetMetadata(objRow, get.meta,
                                     [op |-> "migrate", m |-> NilMap])
            /\ get' = [get EXCEPT !.pc = "done", !.ret = "ok",
                                  !.resp = JsonResponse(get.meta.clear)]
       ELSE /\ get' = [get EXCEPT !.pc = "done", !.ret = "NotFound",
                                  !.resp = JsonResponse(get.meta.clear)]
            /\ UNCHANGED objRow
    /\ UNCHANGED <<storeFrame, now, mig>>

NextStore ==
    \/ \E b \in ExternalBlobs, p \in BOOLEAN : ExternalPut(b, p)
    \/ ExternalDelete
    \/ \E m \in PutBodies : HandleUpdate(m)
    \/ HandleDelete
    \/ MigRead
    \/ MigWrite
    \/ GetRead
    \/ GetWrite

InitStoreAlone ==
    /\ InitRepo
    /\ InitWorker
    /\ calc = Nil
    /\ InitStore
    /\ objects = [o \in Objs |-> [queuedAt |-> Nil]]
    /\ now = 1

SpecStore == InitStoreAlone /\ [][NextStore]_vars

(***************************************************************************)
(* Capability repository: claims                                           *)
(***************************************************************************)
SubsetEq(a, b) ==
    Compare(a, b) \in {EncryptorComparisonIdentical, EncryptorComparisonSubset}

StrictSuperset(a, b) == Compare(a, b) = EncryptorComparisonSuperset

\* C1 (as claimed): after any sequence of AddEncryptor calls on an empty
\* repository no entry's key set is identical to, or a strict subset of,
\* another entry's key set.
C1_NoSubsetPair ==
    \A i, j \in 1..Len(encryptors) :
        i # j => ~SubsetEq(encryptors[i].encryptor, encryptors[j].encryptor)

\* C1 (amended): after any sequence of AddEncryptor calls on an empty
\* repository no entry's key set is identical to, or a strict subset of, the
\* key set of an entry that comes after it (an entry may stay a strict
\* subset of an earlier entry).
C1_NoSubsetOfLater ==
    \A i, j \in 1..Len(encryptors) :
        i < j => ~SubsetEq(encryptors[i].encryptor, encryptors[j].encryptor)

\* A superset of several entries was added: it replaced the first of them
\* and a later entry is dominated by it.
C1_Witness ==
    /\ call.op = "AddEncryptor"
    /\ call.ret
    /\ \E i, j \in 1..Len(encryptors) :
          /\ i < j
          /\ encryptors[i].encryptor = call.arg
          /\ StrictSuperset(encryptors[i].encryptor, encryptors[j].encryptor)

FirstSuperset(encs, new) ==
    CHOOSE i \in 1..Len(encs) :
        /\ StrictSuperset(new, encs[i].encryptor)
        /\ \A j \in 1..(i - 1) : ~StrictSuperset(new, encs[j].encryptor)

\* C3: when new is not identical to or a subset of any entry, AddEncryptor
\* returns true; if new is a strict superset of some entry, exactly the
\* first such entry is replaced by new (size and all other entries with
\* their counters unchanged), otherwise new is appended.
C3_ReplaceFirstOrAppend ==
    [][(/\ call'.op = "AddEncryptor"
        /\ \A i \in 1..Len(encryptors) :
              ~SubsetEq(call'.arg, encryptors[i].encryptor))
       => /\ call'.ret = TRUE
          /\ IF \E i \in 1..Len(encryptors) :
                   StrictSuperset(call'.arg, encryptors[i].encryptor)
             THEN encryptors' =
                    [encryptors EXCEPT ![FirstSuperset(encryptors, call'.arg)] =
                        NewEntry(call'.arg)]
             ELSE encryptors' = Append(encryptors, NewEntry(call'.arg))]_vars

\* A superset of two entries was added: the first was replaced, the second
\* kept with its counters.
C3_Witness ==
    /\ call.op = "AddEncryptor"
    /\ call.ret
    /\ \E i, j \in 1..Len(encryptors) :
          /\ i < j
          /\ encryptors[i] = NewEntry(call.arg)
          /\ StrictSuperset(call.arg, encryptors[j].encryptor)
          /\ encryptors[j].total > 0


(***************************************************************************)
(* Migration worker and request gate: claims                               *)
(***************************************************************************)
\* C4: in every reachable state of a project's worker, after any sequence of
\* requests and migration runs, the capability repository holds at most
\* maxEncryptorsPerProject capabilities.
C4_AtMostMaxEncryptors == Len(encryptors) <= maxEncryptorsPerProject

\* Every queued object can be decrypted by a registered capability.
Capable ==
    /\ workerExists
    /\ \A o \in Objs :
          objects[o].queuedAt # Nil =>
             \E i \in 1..Len(encryptors) :
                CanDecrypt(encryptors[i].encryptor, ObjKey(o), ObjKey(o))

Drained == \A o \in Objs : objects[o].queuedAt = Nil

\* C5: starting from any finite change queue and with no external write,
\* if from some point on every queued object can be decrypted by a
\* registered capability, then the runs of the worker (ticker, WaitForProject,
\* inline GET migrations, in any order) eventually leave every object with
\* queuedAt = null.
C5_QueueDrains == <>[]Capable => <>Drained

\* C6: when AddEncryptor on the worker has added a new capability, startTime
\* is cleared and stays cleared until the next run starts its scan, also when
\* the capability is added while a run is in progress.
C6_StartTimeStaysCleared == rescanPending => startTime = Nil

InWait(r) == req[r].pc \in {"subscribe", "start", "select"}

\* WaitForProject of request r returns in this step.
WaitReturns(r) == req[r].pc = "select" /\ req'[r].pc # "select"

\* C7: every waiter channel receives at most one completion signal, a
\* signalled channel is no longer in the subscribers list, the signalling
\* send never blocks the worker, WaitForProject returns true only when its
\* channel was signalled, and every WaitForProject call eventually returns.
C7_WaitersSignalledOnce ==
    /\ [](\A c \in Chans : chanSent[c] <= 1 /\ chanBuf[c] <= 1)
    /\ [](\A i \in 1..Len(subscribers) : chanSent[subscribers[i]] = 0)
    /\ [](~blocked)
    /\ [][\A r \in Reqs :
            WaitReturns(r) /\ req'[r].ret => chanSent[req[r].done] = 1]_vars
    /\ \A r \in Reqs : InWait(r) ~> ~InWait(r)

\* Two concurrent waiters: one was signalled and returned true, the other
\* took its timeout.
C7_Witness ==
    \E r1, r2 \in Reqs :
        /\ req[r1].pc = "handler" /\ req[r1].ret
        /\ req[r2].resp = "MigrationInProgress"

\* C8 (as claimed): WaitForProject returns true only if the MigrateProject
\* call of a run returned after the waiter was registered.
C8_TrueOnlyAfterMigrateProjectReturned ==
    [][\A r \in Reqs :
         WaitReturns(r) /\ req'[r].ret => req[r].returnedSince]_vars

\* C8 (amended): WaitForProject returns true only if a run finished (sent the
\* completion signals under the mutex) after the waiter was registered; the
\* MigrateProject call of that run may have returned before the registration.
C8_TrueOnlyAfterRunFinished ==
    [][\A r \in Reqs :
         WaitReturns(r) /\ req'[r].ret => req[r].finishedSince]_vars

\* A waiter that was signalled by a run and has returned true, with no run
\* in progress any more.
C8_Witness ==
    \E r \in Reqs : req[r].pc = "handler" /\ req[r].ret /\ ~running

\* C9: if WaitForProject times out the request fails with the
\* MigrationInProgress error and calls none of GetMetadata, UpdateMetadata,
\* DeleteMetadata and QueryMetadata: the failed request leaves the stored
\* metadata unchanged.
C9_TimeoutFailsRequest ==
    [][\A r \in Reqs :
         /\ WaitReturns(r) /\ ~req'[r].ret =>
               /\ req'[r].pc = "done"
               /\ req'[r].resp = "MigrationInProgress"
               /\ req'[r].repoCalls = {}
               /\ objects' = objects
         /\ req[r].resp = "MigrationInProgress" =>
               req'[r] \in {req[r], IdleReq}]_vars

\* A request that failed on the timeout while the run is still going.
C9_Witness ==
    \E r \in Reqs :
        /\ req[r].pc = "done"
        /\ req[r].resp = "MigrationInProgress"
        /\ running

Executing == {g \in RunSlots : run[g].pc # "idle"}

\* C10: at most one MigrateProject run of the worker is executing at any
\* time, and a Start issued while a run is in progress starts nothing.
C10_OneRunAtATime ==
    /\ [](Cardinality(Executing) <= 1)
    /\ [](running <=> Executing # {})
    /\ [][running =>
            \A g \in RunSlots : run[g].pc = "idle" => run'[g].pc = "idle"]_vars

\* Both requests have called Start and wait, and one run is scanning.
C10_Witness ==
    /\ \A r \in Reqs : req[r].pc = "select"
    /\ \E g \in RunSlots : run[g].pc = "scan"


(***************************************************************************)
(* Codec and query planner: claims                                         *)
(***************************************************************************)
NoPrefixedKey(x) == \A p \in x.kv : ~HasPrefix(p.k)

RoundTripDone == calc.op = "toDeepMetadata"

\* C18 (as claimed): for every deep object x, the empty object included,
\* with no top-level key that starts with "json:",
\* toDeepMetadata(toShallowMetadata(x)) is JSON-equal to x.
C18_RoundTrip ==
    RoundTripDone /\ ~calc.x.isNil /\ NoPrefixedKey(calc.x) =>
        ~calc.err /\ calc.deep = calc.x

\* C18 (amended): for every deep object x with at least one entry and no
\* top-level key that starts with "json:",
\* toDeepMetadata(toShallowMetadata(x)) succeeds and is JSON-equal to x; for
\* the empty object the result is null.
C18_RoundTripNonEmpty ==
    RoundTripDone /\ ~calc.x.isNil /\ NoPrefixedKey(calc.x) =>
        /\ ~calc.err
        /\ LenMap(calc.x) > 0 => calc.deep = calc.x
        /\ LenMap(calc.x) = 0 => calc.deep = NilMap

\* An object with a string and a non-string entry has made the round trip.
C18_Witness ==
    /\ RoundTripDone
    /\ NoPrefixedKey(calc.x)
    /\ \E p, q \in calc.x.kv : IsString(p.v) /\ ~IsString(q.v)
    /\ \E p \in calc.shallow.kv : HasPrefix(p.k)

QueryExecuted == calc.op \in {"QueryMetadata", "jsonResponse"}

\* C19: for every match object M and every JSON object O, O JSON-contains M
\* if and only if O JSON-contains every leaf of splitToJSONLeaves(M): the
\* query built by QueryMetadata selects exactly the objects whose clear
\* metadata contains M.
C19_LeavesEquivalentToMatch ==
    QueryExecuted => (calc.selected <=> Contains(calc.clear, calc.match))

\* C20: a search whose match object has more leaves than
\* MaxFindObjectsByClearMetadataQuerySize is answered with BadRequest (400)
\* and executes no query; a match with no more leaves than that is not
\* rejected.
C20_TooManyLeavesIsBadRequest ==
    /\ calc.op = "errorResponse" =>
          /\ calc.n > MaxFindObjectsByClearMetadataQuerySize
          /\ ~calc.executed
          /\ calc.resp = ErrBadRequest
    /\ calc.op = "jsonResponse" =>
          calc.n <= MaxFindObjectsByClearMetadataQuerySize

(***************************************************************************)
(* The object store: claims                                                *)
(***************************************************************************)
\* The step of a MigrateObject call from p to q is its MigrateMetadata.
\* The write happens only when the row still has the metasearch_queued_at
\* that was read, it is made on the blob that was decrypted, it sets the
\* encrypted fields, the clear metadata and metasearch_queued_at = NULL;
\* otherwise nothing changes and NotFound is returned.
WriteBack(p, q) ==
    p.pc = "write" /\ q.pc # "write" =>
        IF objRow.exists /\ objRow.queuedAt = p.obj.queuedAt
        THEN /\ q.ret = "ok"
             /\ objRow.enc = p.obj.enc
             /\ objRow'.enc = p.meta.enc
             /\ ParseJSON(objRow'.clear) = p.meta.clear
             /\ objRow'.queuedAt = Nil
        ELSE /\ q.ret = "NotFound"
             /\ objRow' = objRow

\* C11: MigrateMetadata writes only if the object's queuedAt still equals
\* the value the migrator read; after a re-queue by an external write, a
\* server PUT or DELETE, or another migration, nothing is changed and
\* NotFound is returned.  Of the concurrent migrations of one queued state
\* of the object at most one write-back succeeds, and no write is replaced
\* by metadata decrypted from an older blob.
C11_ConditionalWriteBack ==
    /\ [][WriteBack(mig, mig') /\ WriteBack(get, get')]_vars
    /\ [](mig.ret = "ok" /\ get.ret = "ok" =>
             mig.obj.queuedAt # get.obj.queuedAt)

\* The background migration and the GET read the same queued state, and the
\* write-back of one of them was refused.
C11_Witness ==
    /\ mig.ret = "NotFound"
    /\ get.ret = "ok"
    /\ mig.obj.queuedAt = get.obj.queuedAt

\* The clear metadata of a row is what its encrypted fields decrypt to:
\* nothing for empty fields.
ClearReflectsEnc(r) ==
    IF r.enc.key = Nil THEN r.clear.isNull
    ELSE \E d \in ToDeepMetadata(r.enc.sh) :
            ~d.err /\ d.meta = ParseJSON(r.clear)

\* C12: in every reachable state an object whose queuedAt is null has
\* clear metadata equal to what its three encrypted fields decrypt to.
C12_ClearReflectsEncrypted ==
    objRow.exists /\ objRow.queuedAt = Nil => ClearReflectsEnc(objRow)

\* The blob has encrypted metadata that a registered capability decrypts.
Decryptable(enc) ==
    /\ enc.key \in StoreEncryptors
    /\ \E d \in ToDeepMetadata(enc.sh) : ~d.err

QueuedGetDone ==
    /\ get.pc = "done"
    /\ get.found
    /\ get.obj.queuedAt # Nil
    /\ Decryptable(get.obj.enc)

C16_GetAfterDeleteNotFound ==
    get.pc = "done" /\ get.obj.last.op = "DELETE" /\ ~get.since =>
        get.resp.StatusCode = 404 /\ get.resp.kind = "NotFound"

\* C17: GetMetadata returns NotFound when the object has no version that is
\* not pending or when its latest such version is a delete marker.
C17_DeleteMarkerNotFound ==
    /\ get.pc # "idle"
    /\ \/ ~get.obj.exists
       \/ get.obj.status \in {deleteMarkerUnversioned, deleteMarkerVersioned}
    => ~get.found /\ get.resp.kind = "NotFound"

(***************************************************************************)
(* Search after an external write: claim                                   *)
(***************************************************************************)
\* Request r executes the query of its search in this step.
SearchQueries(r) ==
    req[r].pc = "handler" /\ "QueryMetadata" \in req'[r].repoCalls

\* C14: a search request issued after an external writer queued an object
\* that the capability of the request decrypts is answered from the
\* migrated state: when its query is executed the object has queuedAt =
\* null, whatever background runs are interleaved.
C14_SearchSeesMigrated ==
    [][SearchQueries(2) =>
          \A o \in Objs : ObjKey(o) = 2 => objects[o].queuedAt = Nil]_vars

(***************************************************************************)
(* UplinkEncryptor.Compare on its own                                      *)
(***************************************************************************)
\* The argument of Compare: an *UplinkEncryptor with its store entries, or
\* an Encryptor of another type.
Others ==
    [uplink : {TRUE}, storeEntries : Encryptors]
        \cup {[uplink |-> FALSE, storeEntries |-> {}]}

\* Compare with the type assertion other.(*UplinkEncryptor) in front.
CompareOther(e, other) ==
    IF ~other.uplink THEN EncryptorComparisonDifferent
    ELSE Compare(e, other.storeEntries)

InitCompare ==
    /\ InitRepo
    /\ InitWorker
    /\ objects = [o \in Objs |-> [queuedAt |-> Nil]]
    /\ now = 1
    /\ objRow = Nil
    /\ mig = Nil
    /\ get = Nil
    /\ \E a \in Encryptors, b \in Others :
          calc = [op |-> "input", a |-> a, b |-> b,
                  ab |-> Nil, ba |-> Nil, aa |-> Nil]

\* a.Compare(b), b.Compare(a) when b is an UplinkEncryptor, and a.Compare(a).
CalcCompare ==
    /\ calc.op = "input"
    /\ calc' = [calc EXCEPT
                  !.op = "Compare",
                  !.ab = CompareOther(calc.a, calc.b),
                  !.ba = IF calc.b.uplink
                         THEN Compare(calc.b.storeEntries, calc.a)
                         ELSE EncryptorComparisonDifferent,
                  !.aa = Compare(calc.a, calc.a)]
    /\ UNCHANGED <<repoVars, workerVars, storeVars>>

NextCompare == CalcCompare

SpecCompare == InitCompare /\ [][NextCompare]_vars

\* C28: a.Compare(b) is Identical iff the two sets of store entries are
\* equal, Subset iff a's set is a strict subset of b's, Superset iff it is a
\* strict superset, and Different otherwise, partially overlapping sets
\* included; a.Compare(a) is Identical and a.Compare(b) is Subset iff
\* b.Compare(a) is Superset.
C28_CompareBySets ==
    (calc.op = "Compare" /\ calc.b.uplink) =>
        LET a == calc.a
            b == calc.b.storeEntries
        IN  /\ (calc.ab = EncryptorComparisonIdentical) <=> (a = b)
            /\ (calc.ab = EncryptorComparisonSubset)
                  <=> (a \subseteq b /\ a # b)
            /\ (calc.ab = EncryptorComparisonSuperset)
                  <=> (b \subseteq a /\ a # b)
            /\ (calc.ab = EncryptorComparisonDifferent)
                  <=> (~(a \subseteq b) /\ ~(b \subseteq a))
            /\ calc.aa = EncryptorComparisonIdentical
            /\ (calc.ab = EncryptorComparisonSubset)
                  <=> (calc.ba = EncryptorComparisonSuperset)

\* Two partially overlapping sets have been compared.
C28_Witness ==
    /\ calc.op = "Compare"
    /\ calc.b.uplink
    /\ calc.a \cap calc.b.storeEntries # {}
    /\ calc.a \ calc.b.storeEntries # {}
    /\ calc.b.storeEntries \ calc.a # {}
    /\ calc.ab = EncryptorComparisonDifferent
(***************************************************************************)
(* The repository with the arguments and results of its calls recorded     *)
(***************************************************************************)
\* Capabilities of three disjoint scopes and one that covers two of them.
CountedEncryptors == {{1}, {2}, {3}, {1, 2}}

\* An object key: the key it was encrypted with, and whether the string is
\* the decrypted one.
EncryptedKey(pathKey) == [pathKey |-> pathKey, clear |-> FALSE]

ClearKey(pathKey) == [pathKey |-> pathKey, clear |-> TRUE]

\* errors.New("cannot find decryption key for object")
ErrCannotFindKey == "cannot find decryption key for object"

NoError == ""

IdleCall ==
    [op |-> "New", pathKey |-> Nil, metaKey |-> Nil, maxEncryptors |-> Nil,
     ret |-> FALSE, clearObjectKey |-> EncryptedKey(Nil), err |-> NoError]

InitCounted ==
    /\ InitRepo
    /\ InitWorker
    /\ objects = [o \in Objs |-> [queuedAt |-> Nil]]
    /\ now = 1
    /\ objRow = Nil
    /\ mig = Nil
    /\ get = Nil
    /\ calc = IdleCall

countedFrame == UNCHANGED <<call, workerVars, storeVars>>

CountedAdd(newEncryptor) ==
    LET r == RepoAddEncryptor(encryptors, newEncryptor)
    IN  /\ Len(r.encryptors) <= MaxEntries
        /\ encryptors' = r.encryptors
        /\ calc' = [IdleCall EXCEPT !.op = "AddEncryptor", !.ret = r.ret]
        /\ countedFrame

\* EncryptorRepository.DecryptMetadata of an object whose path was sealed
\* with pathKey and whose metadata with metaKey: the key returned is the
\* decrypted one on success and obj.ObjectKey otherwise.
CountedDecrypt(pathKey, metaKey) ==
    LET r == RepoDecryptMetadata(encryptors, pathKey, metaKey)
    IN  /\ \A i \in 1..Len(encryptors) : encryptors[i].total < MaxCount
        /\ encryptors' = r.encryptors
        /\ calc' = [IdleCall EXCEPT
                      !.op = "DecryptMetadata",
                      !.pathKey = pathKey,
                      !.metaKey = metaKey,
                      !.ret = r.ok,
                      !.clearObjectKey = IF r.ok THEN ClearKey(pathKey)
                                         ELSE EncryptedKey(pathKey),
                      !.err = IF r.ok THEN NoError ELSE ErrCannotFindKey]
        /\ countedFrame

CountedCheck(maxEncryptors) ==
    \E r \in RepoCheckEncryptors(encryptors, maxEncryptors) :
        /\ encryptors' = r.encryptors
        /\ calc' = [IdleCall EXCEPT
                      !.op = "CheckEncryptors",
                      !.maxEncryptors = maxEncryptors,
                      !.ret = r.ret]
        /\ countedFrame

NextCounted ==
    \/ \E e \in CountedEncryptors : CountedAdd(e)
    \/ \E pk, mk \in Keys : CountedDecrypt(pk, mk)
    \/ \E n \in 1..MaxEntries : CountedCheck(n)

SpecCounted == InitCounted /\ [][NextCounted]_vars

\* The place each retained entry had before the call: an injective map from
\* the places after to the places before.
Placements(before, after) ==
    {q \in [1..Len(after) -> 1..Len(before)] :
        /\ \A i, j \in 1..Len(after) : i # j => q[i] # q[j]
        /\ \A i \in 1..Len(after) : after[i] = before[q[i]]}

\* Exactly maxN of the entries are retained, no removed entry has a greater
\* success count than a retained one, and the retained ones are ordered by
\* success descending.
PruneKeepsBest(before, after, maxN) ==
    /\ Len(after) = maxN
    /\ SortedBySuccess(after)
    /\ \E q \in Placements(before, after) :
          \A k \in 1..Len(before) :
             (\A i \in 1..Len(after) : q[i] # k) =>
                \A i \in 1..Len(after) : before[k].success <= after[i].success

\* The retained entries of equal success are in their previous order.
PruneStableOnTies(before, after) ==
    \E q \in Placements(before, after) :
       \A i, j \in 1..Len(after) :
          (i < j /\ after[i].success = after[j].success) => q[i] < q[j]

\* C29 (as claimed): CheckEncryptors(maxN) on at most maxN entries changes
\* nothing and returns false; otherwise it returns true, retains exactly
\* maxN entries, removes no entry of a greater success count than a retained
\* one, and leaves the retained entries ordered by success descending with
\* the entries of equal success in their previous relative order.
C29_PruneStable ==
    [][calc'.op = "CheckEncryptors" =>
          IF Len(encryptors) <= calc'.maxEncryptors
          THEN encryptors' = encryptors /\ ~calc'.ret
          ELSE /\ calc'.ret
               /\ PruneKeepsBest(encryptors, encryptors', calc'.maxEncryptors)
               /\ PruneStableOnTies(encryptors, encryptors')]_vars

\* The places of the entries that decrypt both the path and the metadata.
Hits(encs, pathKey, metaKey) ==
    {i \in 1..Len(encs) : CanDecrypt(encs[i].encryptor, pathKey, metaKey)}

\* C30: DecryptMetadata tries the entries in insertion order and stops at
\* the first that decrypts both the path and the metadata: total is
\* incremented for exactly the entries tried, success only for the one that
\* succeeded, and later entries are untouched; when none succeeds the
\* encrypted key is returned with the error "cannot find decryption key ..."
\* and no success counter is incremented.
C30_DecryptInOrder ==
    [][calc'.op = "DecryptMetadata" =>
          LET h == Hits(encryptors, calc'.pathKey, calc'.metaKey)
              n == Len(encryptors)
              last == IF h = {} THEN n ELSE Min(h)
          IN  /\ Len(encryptors') = n
              /\ \A i \in 1..n :
                    /\ encryptors'[i].encryptor = encryptors[i].encryptor
                    /\ encryptors'[i].total =
                          encryptors[i].total + (IF i <= last THEN 1 ELSE 0)
                    /\ encryptors'[i].success =
                          encryptors[i].success
                             + (IF h # {} /\ i = last THEN 1 ELSE 0)
              /\ calc'.ret = (h # {})
              /\ h # {} => /\ calc'.clearObjectKey = ClearKey(calc'.pathKey)
                           /\ calc'.err = NoError
              /\ h = {} => /\ calc'.clearObjectKey = EncryptedKey(calc'.pathKey)
                           /\ calc'.err = ErrCannotFindKey]_vars

\* A call on three entries that succeeded with the second of them.
C30_Witness ==
    /\ calc.op = "DecryptMetadata"
    /\ Len(encryptors) = 3
    /\ calc.ret
    /\ encryptors[1].total = 1 /\ encryptors[1].success = 0
    /\ encryptors[2].total = 1 /\ encryptors[2].success = 1
    /\ encryptors[3].total = 0
(***************************************************************************)
(* Page tokens: getPageToken and parsePageToken                            *)
(***************************************************************************)
\* A string is a sequence of characters.  The characters of bucket names
\* and object keys: a letter, and the characters url.QueryEscape treats
\* specially.
TokenChars == {"a", "&", "=", "%", "+", " "}

MaxKeyLen == 2

MaxVersion == 10

RECURSIVE StringsUpTo(_)
StringsUpTo(n) ==
    IF n = 0 THEN {<<>>}
    ELSE LET shorter == StringsUpTo(n - 1)
         IN  shorter \cup {Append(t, c) : t \in shorter, c \in TokenChars}

\* uuid.UUID: the zero value and one project.
ZeroUUID == 0

ProjectIDs == {ZeroUUID, 1}

Versions == {-1, 0, 1, MaxVersion}

ObjectLocations ==
    [ProjectID : ProjectIDs, BucketName : StringsUpTo(1),
     ObjectKey : StringsUpTo(MaxKeyLen), Version : Versions]

ZeroLocation ==
    [ProjectID |-> ZeroUUID, BucketName |-> <<>>, ObjectKey |-> <<>>,
     Version |-> 0]

\* uuid.UUID.String and uuid.FromString: the text of a UUID is one symbol.
UUIDString(id) == IF id = ZeroUUID THEN <<"uuid0">> ELSE <<"uuid1">>

UUIDFromString(t) ==
    IF \E id \in ProjectIDs : t = UUIDString(id)
    THEN [ok |-> TRUE, v |-> (CHOOSE id \in ProjectIDs : t = UUIDString(id))]
    ELSE [ok |-> FALSE, v |-> ZeroUUID]

DigitChars == <<"0", "1", "2", "3", "4", "5", "6", "7", "8", "9">>

\* strconv.FormatInt(v, 10)
RECURSIVE FormatNat(_)
FormatNat(n) ==
    IF n < 10 THEN <<DigitChars[n + 1]>>
    ELSE Append(FormatNat(n \div 10), DigitChars[(n % 10) + 1])

FormatInt(v) == IF v < 0 THEN <<"-">> \o FormatNat(-v) ELSE FormatNat(v)

IsDigit(c) == \E d \in 1..10 : DigitChars[d] = c

DigitValue(c) == (CHOOSE d \in 1..10 : DigitChars[d] = c) - 1

RECURSIVE ParseNat(_, _)
ParseNat(t, acc) ==
    IF t = <<>> THEN acc ELSE ParseNat(Tail(t), 10 * acc + DigitValue(Head(t)))

\* strconv.ParseInt(t, 10, 64): an optional sign and at least one digit.
ParseInt(t) ==
    LET signed == t # <<>> /\ Head(t) \in {"-", "+"}
        digits == IF signed THEN Tail(t) ELSE t
    IN  IF digits = <<>> \/ \E i \in 1..Len(digits) : ~IsDigit(digits[i])
        THEN [ok |-> FALSE, v |-> 0]
        ELSE [ok |-> TRUE,
              v |-> IF signed /\ Head(t) = "-" THEN 0 - ParseNat(digits, 0)
                    ELSE ParseNat(digits, 0)]

\* url.QueryEscape: letters, digits and "-" stay, a space becomes "+", every
\* other byte becomes "%" and two hexadecimal digits ("ff" is the byte
\* 0xFF).
EscapeChar(c) ==
    CASE c = " " -> <<"+">>
      [] c = "&" -> <<"%", "2", "6">>
      [] c = "=" -> <<"%", "3", "D">>
      [] c = "%" -> <<"%", "2", "5">>
      [] c = "+" -> <<"%", "2", "B">>
      [] c = "/" -> <<"%", "2", "F">>
      [] c = "ff" -> <<"%", "F", "F">>
      [] OTHER -> <<c>>

RECURSIVE QueryEscape(_)
QueryEscape(t) ==
    IF t = <<>> THEN <<>> ELSE EscapeChar(Head(t)) \o QueryEscape(Tail(t))

IsHex(c) == IsDigit(c) \/ c \in {"a", "A", "B", "C", "D", "E", "F"}

\* The byte two hexadecimal digits stand for; bytes outside TokenChars are
\* one symbol.
HexByte(h, l) ==
    CASE h = "2" /\ l = "6" -> "&"
      [] h = "3" /\ l = "D" -> "="
      [] h = "2" /\ l = "5" -> "%"
      [] h = "2" /\ l = "B" -> "+"
      [] h = "2" /\ l = "0" -> " "
      [] h = "2" /\ l = "F" -> "/"
      [] h = "F" /\ l = "F" -> "ff"
      [] OTHER -> "other"

\* url.QueryUnescape
RECURSIVE QueryUnescape(_)
QueryUnescape(t) ==
    IF t = <<>> THEN [ok |-> TRUE, v |-> <<>>]
    ELSE IF Head(t) = "%"
    THEN IF Len(t) < 3 \/ ~IsHex(t[2]) \/ ~IsHex(t[3])
         THEN [ok |-> FALSE, v |-> <<>>]
         ELSE LET rest == QueryUnescape(SubSeq(t, 4, Len(t)))
              IN  [ok |-> rest.ok, v |-> <<HexByte(t[2], t[3])>> \o rest.v]
    ELSE LET rest == QueryUnescape(Tail(t))
         IN  [ok |-> rest.ok,
              v |-> <<IF Head(t) = "+" THEN " " ELSE Head(t)>> \o rest.v]

\* url.Values.Encode of the four fields: sorted by name, name=value joined
\* by "&".  A field name is one symbol.
ValuesEncode(q) ==
    <<"bucketName", "=">> \o QueryEscape(q.bucketName) \o
    <<"&", "objectKey", "=">> \o QueryEscape(q.objectKey) \o
    <<"&", "projectID", "=">> \o QueryEscape(q.projectID) \o
    <<"&", "version", "=">> \o QueryEscape(q.version)

\* The place of the first c in t, or 0.
IndexOf(t, c) ==
    IF \E i \in 1..Len(t) : t[i] = c
    THEN CHOOSE i \in 1..Len(t) : t[i] = c /\ \A j \in 1..(i - 1) : t[j] # c
    ELSE 0

\* url.ParseQuery: the pairs of the query in order, and whether every pair
\* could be unescaped.  A pair that cannot be unescaped is left out.
RECURSIVE ParseQuery(_)
ParseQuery(t) ==
    IF t = <<>> THEN [ok |-> TRUE, pairs |-> <<>>]
    ELSE LET amp == IndexOf(t, "&")
             part == IF amp = 0 THEN t ELSE SubSeq(t, 1, amp - 1)
             rest == IF amp = 0 THEN [ok |-> TRUE, pairs |-> <<>>]
                     ELSE ParseQuery(SubSeq(t, amp + 1, Len(t)))
             eq == IndexOf(part, "=")
             k == QueryUnescape(IF eq = 0 THEN part ELSE SubSeq(part, 1, eq - 1))
             v == QueryUnescape(IF eq = 0 THEN <<>>
                                ELSE SubSeq(part, eq + 1, Len(part)))
         IN  IF part = <<>> THEN rest
             ELSE IF ~k.ok \/ ~v.ok THEN [ok |-> FALSE, pairs |-> rest.pairs]
             ELSE [ok |-> rest.ok, pairs |-> <<<<k.v, v.v>>>> \o rest.pairs]

\* url.Values.Get: the first value of the name, or the empty string.
ValuesGet(pairs, name) ==
    IF \E i \in 1..Len(pairs) : pairs[i][1] = <<name>>
    THEN pairs[CHOOSE i \in 1..Len(pairs) :
                  /\ pairs[i][1] = <<name>>
                  /\ \A j \in 1..(i - 1) : pairs[j][1] # <<name>>][2]
    ELSE <<>>

\* base64.StdEncoding: an injective encoding of byte strings;
\* DecodeString fails on a string that is not an encoding.
EncodeToString(b) == [base64 |-> b]

DecodeString(t) ==
    IF "base64" \in DOMAIN t THEN [ok |-> TRUE, v |-> t.base64]
    ELSE [ok |-> FALSE, v |-> <<>>]

\* A string that is not a base64 encoding.
Garbage == [garbage |-> TRUE]

\* Variant that does not escape the values.
getPageTokenUnescaped(obj) ==
    EncodeToString(
        <<"bucketName", "=">> \o obj.BucketName \o
        <<"&", "objectKey", "=">> \o obj.ObjectKey \o
        <<"&", "projectID", "=">> \o UUIDString(obj.ProjectID) \o
        <<"&", "version", "=">> \o FormatInt(obj.Version))

getPageToken(obj) ==
    EncodeToString(ValuesEncode(
        [projectID |-> UUIDString(obj.ProjectID),
         bucketName |-> obj.BucketName,
         objectKey |-> obj.ObjectKey,
         version |-> FormatInt(obj.Version)]))

TokenError == [ok |-> FALSE, loc |-> ZeroLocation,
               err |-> ErrorfW(ErrBadRequest)]

parsePageToken(t) ==
    LET b == DecodeString(t)
        q == ParseQuery(b.v)
        projectID == UUIDFromString(ValuesGet(q.pairs, "projectID"))
        bucketName == ValuesGet(q.pairs, "bucketName")
        objectKey == ValuesGet(q.pairs, "objectKey")
        version == ParseInt(ValuesGet(q.pairs, "version"))
    IN  IF ~b.ok THEN TokenError
        ELSE IF ~q.ok THEN TokenError
        ELSE IF ~projectID.ok THEN TokenError
        ELSE IF bucketName = <<>> THEN TokenError
        ELSE IF objectKey = <<>> THEN TokenError
        ELSE IF ~version.ok THEN TokenError
        ELSE [ok |-> TRUE,
              loc |-> [ProjectID |-> projectID.v, BucketName |-> bucketName,
                       ObjectKey |-> objectKey, Version |-> version.v],
              err |-> [wrapped |-> {}]]

InitToken ==
    /\ InitRepo
    /\ InitWorker
    /\ objects = [o \in Objs |-> [queuedAt |-> Nil]]
    /\ now = 1
    /\ objRow = Nil
    /\ mig = Nil
    /\ get = Nil
    /\ \E loc \in ObjectLocations :
          calc = [op |-> "input", loc |-> loc, token |-> Garbage,
                  parsed |-> TokenError]

CalcGetPageToken ==
    /\ calc.op = "input"
    /\ calc' = [calc EXCEPT !.op = "getPageToken",
                            !.token = getPageToken(calc.loc)]
    /\ UNCHANGED <<repoVars, workerVars, storeVars>>

CalcParsePageToken ==
    /\ calc.op \in {"input", "getPageToken"}
    /\ calc' = [calc EXCEPT !.op = IF calc.op = "input" THEN "parseGarbage"
                                   ELSE "parsePageToken",
                            !.parsed = parsePageToken(calc.token)]
    /\ UNCHANGED <<repoVars, workerVars, storeVars>>

NextToken == CalcGetPageToken \/ CalcParsePageToken

SpecToken == InitToken /\ [][NextToken]_vars

\* C21 (as claimed): for every location, parsePageToken(getPageToken(loc))
\* succeeds and returns a location equal to loc.
C21_TokenRoundTrip ==
    calc.op = "parsePageToken" =>
        calc.parsed.ok /\ calc.parsed.loc = calc.loc

\* C21 (amended): for every location with a non-empty bucket name and a
\* non-empty object key, parsePageToken(getPageToken(loc)) succeeds and
\* returns a location equal to loc; for a location with an empty bucket name
\* or an empty object key it fails with a BadRequest error.
C21_TokenRoundTripNonEmpty ==
    calc.op = "parsePageToken" =>
        IF calc.loc.BucketName # <<>> /\ calc.loc.ObjectKey # <<>>
        THEN calc.parsed.ok /\ calc.parsed.loc = calc.loc
        ELSE ~calc.parsed.ok /\ ErrorResponseOf(calc.parsed.err) = ErrBadRequest

\* The token of a location whose key holds a separator of the URL form and
\* whose version is negative has been parsed back.
C21_Witness ==
    /\ calc.op = "parsePageToken"
    /\ calc.parsed.ok
    /\ calc.loc.ObjectKey = <<"&", "=">>
    /\ calc.loc.BucketName = <<"%">>
    /\ calc.loc.Version = -1
(***************************************************************************)
(* Search: validateSearchRequest, QueryMetadata, searchMetadata and a      *)
(* client that follows the page tokens                                     *)
(***************************************************************************)
\* The byte value of a character: the order of object keys in the table.
Byte(c) ==
    CASE c = " " -> 32
      [] c = "%" -> 37
      [] c = "&" -> 38
      [] c = "+" -> 43
      [] c = "/" -> 47
      [] c = "0" -> 48
      [] c = "=" -> 61
      [] c = "a" -> 97
      [] c = "ff" -> 255

KeyBytes == {"%", "/", "0", "a", "ff"}

RECURSIVE LessString(_, _)
LessString(t, u) ==
    IF u = <<>> THEN FALSE
    ELSE IF t = <<>> THEN TRUE
    ELSE IF Head(t) # Head(u) THEN Byte(Head(t)) < Byte(Head(u))
    ELSE LessString(Tail(t), Tail(u))

\* (object_key, version) < (k, v) of SQL, project and bucket being equal.
TupleLess(k1, v1, k2, v2) == LessString(k1, k2) \/ (k1 = k2 /\ v1 < v2)

Front(t) == SubSeq(t, 1, Len(t) - 1)

Last(t) == t[Len(t)]

\* The lexicographic successor of a prefix: the last byte that is not 0xFF
\* is incremented and the key is cut after it.
RECURSIVE PrefixLimit(_)
PrefixLimit(k) ==
    IF k = <<>> THEN <<>>
    ELSE IF Last(k) = "ff" THEN PrefixLimit(Front(k))
    ELSE Append(Front(k), CHOOSE c \in KeyBytes : Byte(c) = Byte(Last(k)) + 1)

\* Variant that uses the prefix itself as the limit.
PrefixLimitSame(k) == k

\* normalizeKeyPrefix
RECURSIVE StripLeading(_)
StripLeading(t) ==
    IF t # <<>> /\ Head(t) = "/" THEN StripLeading(Tail(t)) ELSE t

RECURSIVE StripTrailing(_)
StripTrailing(t) ==
    IF t # <<>> /\ Last(t) = "/" THEN StripTrailing(Front(t)) ELSE t

normalizeKeyPrefix(prefix) == StripTrailing(StripLeading(prefix))

\* Path encryption works on the components of a path: the components "p",
\* "q", "r" and "s" have the encrypted forms "a", "%", 0xFF and "0", and
\* "/" separates.
EncryptByte(c) ==
    CASE c = "p" -> "a"
      [] c = "q" -> "%"
      [] c = "r" -> "ff"
      [] c = "s" -> "0"
      [] OTHER -> c

DecryptByte(c) ==
    CASE c = "a" -> "p"
      [] c = "%" -> "q"
      [] c = "ff" -> "r"
      [] c = "0" -> "s"
      [] OTHER -> c

\* The key of the scope "p" of the bucket.
PrefixKey == 1

\* Encryptor.EncryptPath: fails when the capability has no key for the path.
EncryptPath(e, path) ==
    IF PrefixKey \notin e THEN [ok |-> FALSE, v |-> <<>>]
    ELSE [ok |-> TRUE, v |-> [i \in 1..Len(path) |-> EncryptByte(path[i])]]

\* Variant in which every capability decrypts every path.
DecryptPathAny(e, r) ==
    [ok |-> TRUE,
     v |-> [i \in 1..Len(r.ObjectKey) |-> DecryptByte(r.ObjectKey[i])]]

\* Encryptor.DecryptPath of the key of a row that was sealed with pathKey.
DecryptPath(e, r) ==
    IF r.pathKey \notin e THEN [ok |-> FALSE, v |-> <<>>]
    ELSE [ok |-> TRUE,
          v |-> [i \in 1..Len(r.ObjectKey) |-> DecryptByte(r.ObjectKey[i])]]

BoolValue(b) == [t |-> "bool", b |-> b]

OneKey(v) == ObjectValue({[k |-> "a", v |-> v]})

\* JMESPath expressions: a field, and a function of a field that fails on
\* an argument that is not a number.
NoExpression == ""

FieldA == "a"

AbsA == "abs(a)"

Field(data, name) ==
    IF data.t = "object" /\ \E q \in data.kv : q.k = name
    THEN (CHOOSE q \in data.kv : q.k = name).v
    ELSE NullValue

\* JMESPath.Search(data)
JMESSearch(expr, data) ==
    IF expr = FieldA THEN [ok |-> TRUE, v |-> Field(data, "a")]
    ELSE IF Field(data, "a").t = "number"
    THEN [ok |-> TRUE, v |-> Field(data, "a")]
    ELSE [ok |-> FALSE, v |-> NullValue]

\* Variant of filterMetadata that includes a row only on the result true.
filterMetadataOnlyTrue(filter, metadata) ==
    IF filter = NoExpression THEN [ok |-> TRUE, include |-> TRUE]
    ELSE LET result == JMESSearch(filter, metadata)
         IN  IF ~result.ok THEN [ok |-> FALSE, include |-> FALSE]
             ELSE [ok |-> TRUE, include |-> result.v = BoolValue(TRUE)]

\* Server.filterMetadata
filterMetadata(filter, metadata) ==
    IF filter = NoExpression THEN [ok |-> TRUE, include |-> TRUE]
    ELSE LET result == JMESSearch(filter, metadata)
         IN  IF ~result.ok THEN [ok |-> FALSE, include |-> FALSE]
             ELSE IF result.v.t = "bool"
             THEN [ok |-> TRUE, include |-> result.v.b]
             ELSE IF result.v = NullValue
             THEN [ok |-> TRUE, include |-> FALSE]
             ELSE [ok |-> TRUE, include |-> TRUE]

defaultBatchSize == 100

maxBatchSize == 1000

\* Variant that keeps every positive batch size.
ValidBatchSizeUnbounded(n) == IF n <= 0 THEN defaultBatchSize ELSE n

\* validateSearchRequest, "Validate batch size".
ValidBatchSize(n) ==
    IF n <= 0 \/ n > maxBatchSize THEN defaultBatchSize ELSE n

\* Variant whose later pages start at the token's row, not after it.
SelectedRowsFromToken(db, encKey, match, startAfter) ==
    {r \in db :
        /\ SelectedByParts(r.clear, SplitToLeafValues(match))
        /\ IF startAfter.ProjectID = ZeroUUID
           THEN ~TupleLess(r.ObjectKey, r.Version, encKey, 0)
           ELSE ~TupleLess(r.ObjectKey, r.Version,
                           startAfter.ObjectKey, startAfter.Version)
        /\ encKey # <<>> =>
              TupleLess(r.ObjectKey, r.Version, PrefixLimit(encKey), 0)}

\* The rows QueryMetadata selects, the table holding the objects of the
\* project and bucket of the request, all committed and none expired.
SelectedRows(db, encKey, match, startAfter) ==
    {r \in db :
        /\ SelectedByParts(r.clear, SplitToLeafValues(match))
        /\ IF startAfter.ProjectID = ZeroUUID
           THEN ~TupleLess(r.ObjectKey, r.Version, encKey, 0)
           ELSE TupleLess(startAfter.ObjectKey, startAfter.Version,
                          r.ObjectKey, r.Version)
        /\ encKey # <<>> =>
              TupleLess(r.ObjectKey, r.Version, PrefixLimit(encKey), 0)}

\* ORDER BY project_id, bucket_name, object_key, version
RECURSIVE Ordered(_)
Ordered(S) ==
    IF S = {} THEN <<>>
    ELSE LET least == CHOOSE r \in S :
                         \A q \in S \ {r} :
                            TupleLess(r.ObjectKey, r.Version, q.ObjectKey, q.Version)
         IN  <<least>> \o Ordered(S \ {least})

\* MetabaseSearchRepository.QueryMetadata
QueryMetadata(db, encKey, match, startAfter, batchSize) ==
    IF LenLeaves(match) > MaxFindObjectsByClearMetadataQuerySize
    THEN [ok |-> FALSE, err |-> ErrorfS(ErrBadRequest), Objects |-> <<>>]
    ELSE LET all == Ordered(SelectedRows(db, encKey, match, startAfter))
         IN  [ok |-> TRUE, err |-> [wrapped |-> {}],
              Objects |-> SubSeq(all, 1, Min({Len(all), batchSize}))]

NoToken == [empty |-> TRUE]

\* The loop of searchMetadata from row i on.
RECURSIVE SearchLoop(_, _, _, _)
SearchLoop(request, rows, i, results) ==
    IF i > Len(rows) THEN [ok |-> TRUE, err |-> [wrapped |-> {}], Results |-> results]
    ELSE LET obj == rows[i]
             decodedPath == DecryptPath(request.Encryptor, obj)
             keep == filterMetadata(request.Filter, obj.clear)
             projected == IF request.Projection # NoExpression
                          THEN JMESSearch(request.Projection, obj.clear)
                          ELSE [ok |-> TRUE, v |-> obj.clear]
         IN  IF ~decodedPath.ok THEN SearchLoop(request, rows, i + 1, results)
             ELSE IF ~keep.ok
             THEN [ok |-> FALSE, err |-> ErrorfW(ErrBadRequest), Results |-> results]
             ELSE IF ~keep.include THEN SearchLoop(request, rows, i + 1, results)
             ELSE IF ~projected.ok
             THEN [ok |-> FALSE, err |-> [wrapped |-> {}], Results |-> results]
             ELSE SearchLoop(request, rows, i + 1,
                             Append(results, [Path |-> decodedPath.v,
                                              Metadata |-> projected.v]))

\* Variant that builds the token when the results fill the page.
searchMetadataTokenOfResults(request, batchSize, rows) ==
    LET r == SearchLoop(request, rows, 1, <<>>)
    IN  [ok |-> r.ok, err |-> r.err, Results |-> r.Results,
         PageToken |-> IF Len(r.Results) >= batchSize
                       THEN getPageToken(
                               [ProjectID |-> 1, BucketName |-> <<"a">>,
                                ObjectKey |-> rows[Len(rows)].ObjectKey,
                                Version |-> rows[Len(rows)].Version])
                       ELSE NoToken]

\* Server.searchMetadata on the rows of the backing query.
searchMetadata(request, batchSize, rows) ==
    LET r == SearchLoop(request, rows, 1, <<>>)
    IN  [ok |-> r.ok, err |-> r.err, Results |-> r.Results,
         PageToken |-> IF Len(rows) >= batchSize
                       THEN getPageToken(
                               [ProjectID |-> 1, BucketName |-> <<"a">>,
                                ObjectKey |-> rows[Len(rows)].ObjectKey,
                                Version |-> rows[Len(rows)].Version])
                       ELSE NoToken]
ErrAuthorizationFailed == [kind |-> "AuthorizationFailed", StatusCode |-> 401]

MaxRows == 3

\* The scope "p" of the bucket has the encrypted prefix "a/".  The keys of
\* the table: one below the prefix, the prefix itself, two keys under it
\* (one of them in two versions), and the prefix limit.
RowIds ==
    {[ObjectKey |-> <<"%">>, Version |-> 1],
     [ObjectKey |-> <<"a", "/">>, Version |-> 1],
     [ObjectKey |-> <<"a", "/", "%">>, Version |-> 1],
     [ObjectKey |-> <<"a", "/", "%">>, Version |-> 2],
     [ObjectKey |-> <<"a", "/", "ff">>, Version |-> 1],
     [ObjectKey |-> <<"a", "0">>, Version |-> 1]}

Row(id, pathKey, clear) ==
    [ObjectKey |-> id.ObjectKey, Version |-> id.Version,
     pathKey |-> pathKey, clear |-> clear]

NoRowHere == [t |-> "absent"]

\* Tables of at most MaxRows objects, all sealed with the key of the scope,
\* whose clear metadata is {} or {"a": 1}.
PagingTables ==
    {{Row(id, PrefixKey, f[id]) : id \in {i \in RowIds : f[i] # NoRowHere}} :
        f \in {g \in [RowIds -> {NoRowHere, ObjectValue({}), OneKey(NumberValue(1))}] :
                 Cardinality({i \in RowIds : g[i] # NoRowHere}) <= MaxRows}}

ResultIds ==
    {[ObjectKey |-> <<"%">>, Version |-> 1],
     [ObjectKey |-> <<"a">>, Version |-> 1],
     [ObjectKey |-> <<"a", "/", "%">>, Version |-> 1]}

ResultClears ==
    {ObjectValue({}), OneKey(NumberValue(1)), OneKey(BoolValue(TRUE)),
     OneKey(BoolValue(FALSE))}

\* Tables of at most three objects sealed with the key of the scope or with
\* another key, with clear metadata on which the filters give every kind of
\* result.
ResultTables ==
    {{f[id] : id \in {i \in ResultIds : f[i] # NoRowHere}} :
        f \in {g \in [ResultIds ->
                        {NoRowHere} \cup
                        [ObjectKey : {<<"%">>, <<"a">>, <<"a", "/", "%">>},
                         Version : {1}, pathKey : {1, 2}, clear : ResultClears]] :
                 \A i \in ResultIds :
                    g[i] # NoRowHere => g[i].ObjectKey = i.ObjectKey}}

\* Search requests that page through a prefix, and search requests of one
\* page with a filter and a projection.  The first request of an iteration
\* has no page token, a string that is no token, a token a client made
\* for a key below the prefix, or a token with the zero project ID.
PagingRequests ==
    [KeyPrefix : {<<>>, <<"/", "p", "/">>},
     Match : {OneKey(NumberValue(1))},
     Filter : {NoExpression},
     Projection : {NoExpression},
     BatchSize : {-1, 0, 1, 2, maxBatchSize, maxBatchSize + 1},
     PageToken : {NoToken, Garbage,
                  getPageToken([ProjectID |-> 1, BucketName |-> <<"a">>,
                                ObjectKey |-> <<"%">>, Version |-> 0]),
                  getPageToken([ProjectID |-> ZeroUUID, BucketName |-> <<"a">>,
                                ObjectKey |-> <<"a", "/", "%">>,
                                Version |-> 1])},
     Encryptor : {{1}, {2}}]

ResultRequests ==
    [KeyPrefix : {<<>>},
     Match : {ObjectValue({})},
     Filter : {NoExpression, FieldA, AbsA},
     Projection : {NoExpression, FieldA},
     BatchSize : {1, 2},
     PageToken : {NoToken},
     Encryptor : {{1}}]

NoResponse == [StatusCode |-> 0, Results |-> <<>>, PageToken |-> NoToken]

SearchState(db, request) ==
    [op |-> "request", db |-> db, request |-> request, first |-> request.PageToken,
     startAfter |-> ZeroLocation, batchSize |-> 0, encKey |-> <<>>,
     rows |-> <<>>, resp |-> NoResponse, fetched |-> <<>>, pages |-> 0]

InitPages ==
    /\ InitRepo
    /\ InitWorker
    /\ objects = [o \in Objs |-> [queuedAt |-> Nil]]
    /\ now = 1
    /\ objRow = Nil
    /\ mig = Nil
    /\ get = Nil
    /\ \/ \E db \in PagingTables, request \in PagingRequests :
             calc = SearchState(db, request)
       \/ \E db \in ResultTables, request \in ResultRequests :
             calc = SearchState(db, request)

SearchError(err) ==
    [StatusCode |-> ErrorResponseOf(err).StatusCode, Results |-> <<>>,
     PageToken |-> NoToken]

\* validateSearchRequest after validateRequest has authenticated the
\* request and decoded its body: batch size, page token and key prefix.
ValidateSearchRequest ==
    /\ calc.op = "request"
    /\ LET request == calc.request
           parsed == IF request.PageToken # NoToken
                     THEN parsePageToken(request.PageToken)
                     ELSE [ok |-> TRUE, loc |-> ZeroLocation,
                           err |-> [wrapped |-> {}]]
           keyPrefix == normalizeKeyPrefix(request.KeyPrefix)
           encPrefix == IF keyPrefix # <<>>
                        THEN EncryptPath(request.Encryptor, keyPrefix)
                        ELSE [ok |-> TRUE, v |-> <<>>]
       IN  IF ~parsed.ok
           THEN calc' = [calc EXCEPT !.op = "errorResponse",
                                     !.batchSize = ValidBatchSize(request.BatchSize),
                                     !.resp = SearchError(parsed.err)]
           ELSE IF ~encPrefix.ok
           THEN calc' = [calc EXCEPT !.op = "errorResponse",
                                     !.batchSize = ValidBatchSize(request.BatchSize),
                                     !.startAfter = parsed.loc,
                                     !.resp = SearchError(ErrorfW(ErrAuthorizationFailed))]
           ELSE calc' = [calc EXCEPT !.op = "validated",
                                     !.batchSize = ValidBatchSize(request.BatchSize),
                                     !.startAfter = parsed.loc,
                                     !.encKey = IF keyPrefix # <<>>
                                                THEN Append(encPrefix.v, "/")
                                                ELSE <<>>]
    /\ UNCHANGED <<repoVars, workerVars, storeVars>>

\* Server.searchMetadata and the response of HandleQuery.
SearchMetadata ==
    /\ calc.op = "validated"
    /\ LET q == QueryMetadata(calc.db, calc.encKey, calc.request.Match,
                              calc.startAfter, calc.batchSize)
           r == searchMetadata(calc.request, calc.batchSize, q.Objects)
       IN  IF ~q.ok
           THEN calc' = [calc EXCEPT !.op = "errorResponse",
                                     !.resp = SearchError(q.err)]
           ELSE IF ~r.ok
           THEN calc' = [calc EXCEPT !.op = "errorResponse",
                                     !.rows = q.Objects,
                                     !.resp = SearchError(r.err)]
           ELSE calc' = [calc EXCEPT !.op = "jsonResponse",
                                     !.rows = q.Objects,
                                     !.fetched = calc.fetched \o q.Objects,
                                     !.pages = calc.pages + 1,
                                     !.resp = [StatusCode |-> 200,
                                               Results |-> r.Results,
                                               PageToken |-> r.PageToken]]
    /\ UNCHANGED <<repoVars, workerVars, storeVars>>

\* The client sends the request again with the page token of the response.
Reissue ==
    /\ calc.op = "jsonResponse"
    /\ calc.resp.PageToken # NoToken
    /\ calc' = [calc EXCEPT !.op = "request",
                            !.request.PageToken = calc.resp.PageToken]
    /\ UNCHANGED <<repoVars, workerVars, storeVars>>

NextPages == ValidateSearchRequest \/ SearchMetadata \/ Reissue

SpecPages == InitPages /\ [][NextPages]_vars

(***************************************************************************)
(* Search: claims                                                          *)
(***************************************************************************)
\* The iteration started with a request without page token.
FromFirstPage == calc.first = NoToken

HasKeyPrefix(key, prefix) ==
    Len(key) >= Len(prefix) /\ SubSeq(key, 1, Len(prefix)) = prefix

\* The encrypted prefix the request asks for: "" or "a/".
AskedPrefix ==
    IF normalizeKeyPrefix(calc.request.KeyPrefix) = <<>> THEN <<>>
    ELSE <<"a", "/">>

\* The objects of the table that match the containment query and lie under
\* the prefix.
Wanted ==
    {r \in calc.db :
        Contains(r.clear, calc.request.Match) /\ HasKeyPrefix(r.ObjectKey, AskedPrefix)}

Range(t) == {t[i] : i \in 1..Len(t)}

Ascending(t) ==
    \A i, j \in 1..Len(t) :
       i < j => TupleLess(t[i].ObjectKey, t[i].Version,
                          t[j].ObjectKey, t[j].Version)

LastPage == calc.op = "jsonResponse" /\ calc.resp.PageToken = NoToken

\* C22: with an unchanging table, a search without page token followed by
\* the same search with each returned page token fetches, until a response
\* has no token, every object that matches the containment query and lies
\* under the prefix exactly once and in ascending (key, version) order; the
\* iteration ends after at most one page more than the objects fill; every
\* page asked for with a token holds only rows strictly greater than the
\* token's row.
C22_PagingComplete ==
    FromFirstPage =>
        /\ Ascending(calc.fetched)
        /\ Range(calc.fetched) \subseteq Wanted
        /\ LastPage => Range(calc.fetched) = Wanted
        /\ calc.pages > 0 =>
              calc.pages <= (Cardinality(Wanted) \div calc.batchSize) + 1
        /\ (calc.op = "jsonResponse" /\ calc.request.PageToken # NoToken) =>
              \A i \in 1..Len(calc.rows) :
                 TupleLess(calc.startAfter.ObjectKey, calc.startAfter.Version,
                           calc.rows[i].ObjectKey, calc.rows[i].Version)
        /\ (calc.op = "errorResponse" /\ calc.request.Filter = NoExpression
               /\ calc.request.Projection = NoExpression) =>
              (AskedPrefix # <<>> /\ PrefixKey \notin calc.request.Encryptor)

\* Three pages of batch size 1 under a prefix: two versions of one key, and
\* an empty last page; the table also holds an object outside the prefix.
C22_Witness ==
    /\ FromFirstPage
    /\ LastPage
    /\ AskedPrefix # <<>>
    /\ calc.pages = 3
    /\ Len(calc.fetched) = 2
    /\ calc.fetched[1].ObjectKey = calc.fetched[2].ObjectKey
    /\ \E r \in calc.db :
          Contains(r.clear, calc.request.Match) /\ r \notin Wanted

\* C23: a search response carries a page token if and only if the backing
\* query returned batchSize rows, and the token parses to the key and
\* version of the last of these rows, whether or not that row is among the
\* results.
C23_TokenOfLastRow ==
    calc.op = "jsonResponse" =>
        /\ (calc.resp.PageToken # NoToken) <=> (Len(calc.rows) = calc.batchSize)
        /\ calc.resp.PageToken # NoToken =>
              LET parsed == parsePageToken(calc.resp.PageToken)
                  last == calc.rows[Len(calc.rows)]
              IN  /\ parsed.ok
                  /\ parsed.loc.ObjectKey = last.ObjectKey
                  /\ parsed.loc.Version = last.Version

\* A full page of two rows, one that the capability cannot decrypt and one
\* that the filter removes: no result, and a token.
C23_Witness ==
    /\ calc.op = "jsonResponse"
    /\ Len(calc.rows) = 2
    /\ calc.resp.Results = <<>>
    /\ calc.resp.PageToken # NoToken
    /\ calc.rows[1].pathKey \in calc.request.Encryptor
    /\ calc.rows[2].pathKey \notin calc.request.Encryptor

\* QueryMetadata has been or is about to be called with calc.batchSize.
BatchSizePassed == calc.op \in {"validated", "jsonResponse"}

\* C24: the batch size passed to QueryMetadata is within [1, 1000]: the
\* requested one when that is within [1, 1000], and 100 when the requested
\* one is missing (0), zero, negative or greater than 1000; no request is
\* rejected for its batch size.
C24_BatchSizeClamped ==
    LET asked == calc.request.BatchSize
    IN  /\ BatchSizePassed =>
              /\ calc.batchSize \in 1..maxBatchSize
              /\ asked \in 1..maxBatchSize => calc.batchSize = asked
              /\ asked \notin 1..maxBatchSize => calc.batchSize = defaultBatchSize
        /\ (/\ calc.request.PageToken = NoToken
            /\ calc.request.KeyPrefix = <<>>
            /\ calc.request.Filter = NoExpression
            /\ calc.request.Projection = NoExpression) =>
              calc.op # "errorResponse"

\* A request for 1001 rows has been answered from a query for 100, and the
\* largest batch size allowed was passed on as it is.
C24_Witness ==
    /\ calc.op = "jsonResponse"
    /\ calc.request.BatchSize = maxBatchSize + 1
    /\ calc.batchSize = defaultBatchSize
    /\ calc.rows # <<>>

\* The response has a result for the row.
Emitted(r) ==
    \E i \in 1..Len(calc.resp.Results) :
       calc.resp.Results[i].Path =
          [k \in 1..Len(r.ObjectKey) |-> DecryptByte(r.ObjectKey[k])]

Decrypts(r) == r.pathKey \in calc.request.Encryptor

\* The value of the filter on the clear metadata is true, or is neither
\* null nor a boolean.
FilterAccepts(r) ==
    LET result == JMESSearch(calc.request.Filter, r.clear).v
    IN  result = BoolValue(TRUE) \/ result.t \notin {"bool", "null"}

ResultOf(res, r) ==
    /\ res.Path = [k \in 1..Len(r.ObjectKey) |-> DecryptByte(r.ObjectKey[k])]
    /\ res.Metadata = IF calc.request.Projection = NoExpression THEN r.clear
                      ELSE JMESSearch(calc.request.Projection, r.clear).v

\* The filter or the projection fails on the row.
FailsOn(r) ==
    \/ calc.request.Filter # NoExpression
          /\ ~JMESSearch(calc.request.Filter, r.clear).ok
    \/ calc.request.Projection # NoExpression
          /\ ~JMESSearch(calc.request.Projection, r.clear).ok

\* C26: every result of a search is made from a row whose key the
\* requesting capability decrypted; a row whose key it cannot decrypt has no
\* result, and causes no error: a search fails only on a row the capability
\* decrypts.
C26_OnlyDecryptedRows ==
    /\ calc.op = "jsonResponse" =>
          /\ \A i \in 1..Len(calc.resp.Results) :
                \E k \in 1..Len(calc.rows) :
                   /\ Decrypts(calc.rows[k])
                   /\ ResultOf(calc.resp.Results[i], calc.rows[k])
          /\ \A k \in 1..Len(calc.rows) :
                ~Decrypts(calc.rows[k]) => ~Emitted(calc.rows[k])
    /\ (calc.op = "errorResponse" /\ calc.rows # <<>>) =>
          \E k \in 1..Len(calc.rows) :
             Decrypts(calc.rows[k]) /\ FailsOn(calc.rows[k])

\* A page of a row sealed with another key, on whose metadata the filter
\* would fail, and of a row of the capability: one result and no error.
C26_Witness ==
    /\ calc.op = "jsonResponse"
    /\ calc.request.Filter = AbsA
    /\ Len(calc.rows) = 2
    /\ ~Decrypts(calc.rows[1])
    /\ FailsOn(calc.rows[1])
    /\ Decrypts(calc.rows[2])
    /\ Len(calc.resp.Results) = 1
    /\ ResultOf(calc.resp.Results[1], calc.rows[2])

\* The key lies in [prefix, prefixLimit(prefix)).
InPrefixRange(key, prefix) ==
    ~LessString(key, prefix) /\ LessString(key, PrefixLimit(prefix))

\* C27 (as claimed): a search with a non-empty key prefix returns, on the
\* first and on every later page, only objects whose encrypted key lies in
\* [enc(P)+"/", prefixLimit(enc(P)+"/")).
C27_OnlyPrefixRange ==
    (calc.op = "jsonResponse" /\ AskedPrefix # <<>>) =>
        \A k \in 1..Len(calc.rows) :
           Emitted(calc.rows[k]) => InPrefixRange(calc.rows[k].ObjectKey, AskedPrefix)
(***************************************************************************)
(* ObjectMigrator: Start, the ticker goroutine and Stop                    *)
(*                                                                         *)
(* The state of the supervisor is kept in calc: m.running, the place of    *)
(* the ticker goroutine in its loop, the contents of m.done (capacity 1)   *)
(* and the place of the caller of Stop.  m.running is written by Stop and  *)
(* read by the ticker without synchronisation: the first read after the    *)
(* write may still see the old value.                                      *)
(***************************************************************************)
MaxStops == 2

IdleSupervisor ==
    [running |-> FALSE, visible |-> TRUE, ticker |-> "none", done |-> 0,
     stop |-> "idle", stops |-> 0, lateStart |-> FALSE]

InitSupervisor ==
    /\ InitRepo
    /\ InitWorker
    /\ objects = [o \in Objs |-> [queuedAt |-> Nil]]
    /\ now = 1
    /\ objRow = Nil
    /\ mig = Nil
    /\ get = Nil
    /\ calc = IdleSupervisor

supervisorFrame == UNCHANGED <<repoVars, workerVars, storeVars>>

\* ObjectMigrator.Start: "m.running = true" and the goroutine is started.
MigratorStart ==
    /\ calc.ticker = "none"
    /\ calc' = [calc EXCEPT !.running = TRUE, !.ticker = "check"]
    /\ supervisorFrame

\* The values a read of m.running by the ticker can return.
TickerReads == IF calc.visible THEN {calc.running} ELSE {calc.running, TRUE}

\* "for m.running": the loop goes on, or the goroutine leaves the loop and
\* sends on m.done.
TickerCheck ==
    /\ calc.ticker = "check"
    /\ \E v \in TickerReads :
          IF v
          THEN calc' = [calc EXCEPT !.ticker = "sleep", !.visible = TRUE]
          ELSE /\ calc.done = 0
               /\ calc' = [calc EXCEPT !.ticker = "exited", !.done = 1,
                                       !.visible = TRUE]
    /\ supervisorFrame

\* time.Sleep(migrationInterval) returns.
TickerSleep ==
    /\ calc.ticker = "sleep"
    /\ calc' = [calc EXCEPT !.ticker = "lock"]
    /\ supervisorFrame

\* Under m.mutex: "for _, worker := range m.workers { worker.Start() }".
\* The flag is not read between the sleep and the calls.
TickerRound ==
    /\ calc.ticker = "lock"
    /\ IF workerExists
       THEN /\ MutexFree
            /\ WorkerStart
            /\ calc' = [calc EXCEPT
                          !.ticker = "check",
                          !.lateStart = @ \/ ~calc.running]
       ELSE /\ calc' = [calc EXCEPT !.ticker = "check"]
            /\ UNCHANGED <<running, run>>
    /\ UNCHANGED <<repoVars, workerExists, startTime, subscribers, chanBuf,
                   chanSent, blocked, req, objects, now, rescanPending>>
    /\ UNCHANGED storeVars

\* ObjectMigrator.Stop: "if !m.running { return }; m.running = false".
MigratorStop ==
    /\ calc.stop \in {"idle", "returned"}
    /\ calc.stops < MaxStops
    /\ IF ~calc.running
       THEN calc' = [calc EXCEPT !.stop = "returned", !.stops = @ + 1]
       ELSE calc' = [calc EXCEPT !.running = FALSE, !.visible = FALSE,
                                 !.stop = "wait"]
    /\ supervisorFrame

\* ObjectMigrator.Stop: "<-m.done".
MigratorStopReturn ==
    /\ calc.stop = "wait"
    /\ calc.done = 1
    /\ calc' = [calc EXCEPT !.done = 0, !.stop = "returned", !.stops = @ + 1]
    /\ supervisorFrame

NextSupervisor ==
    \/ MigratorStart
    \/ TickerCheck
    \/ TickerSleep
    \/ TickerRound
    \/ MigratorStop
    \/ MigratorStopReturn
    \/ \E g \in RunSlots : RunStep(g)
    \/ ReqAddProject(1, {2})
    \/ ReqStep(1)
    \/ \E o \in Objs : ExternalWrite(o, 1)

\* The scheduler runs the ticker, the runs and the caller of Stop.
FairSupervisor ==
    /\ WF_vars(TickerCheck)
    /\ WF_vars(TickerSleep)
    /\ WF_vars(TickerRound)
    /\ WF_vars(MigratorStopReturn)
    /\ \A g \in RunSlots : WF_vars(RunStep(g))
    /\ WF_vars(ReqStep(1))

SpecSupervisor == InitSupervisor /\ [][NextSupervisor]_vars /\ FairSupervisor

\* C31: once Stop has cleared m.running the ticker invokes Start on no
\* worker any more: no new run is started by the ticker.
C31_NoStartAfterStop == ~calc.lateStart

\* The ticker leaves its loop and signals, and the Stop that cleared the
\* flag returns.
StopReturns == (calc.stop = "wait") ~> (calc.stop = "returned")
(***************************************************************************)
(* The repository of a worker under concurrent MigrateObject calls         *)
(*                                                                         *)
(* MigrateObject is called by the run goroutine and, inline, by the GET    *)
(* handlers; it takes neither w.mutex nor the mutex of the repository      *)
(* around EncryptorRepository.DecryptMetadata, whose loop is therefore     *)
(* interleaved, statement by statement, with AddEncryptor and              *)
(* CheckEncryptors.  encryptors is the slice r.encryptors; calc.dead holds *)
(* the slots of its backing array beyond its length.  "e" of the loop is   *)
(* a pointer to a slot of the backing array it was taken from.             *)
(***************************************************************************)
MaxSlots == 2

Tasks == {1, 2}

\* Two capabilities of disjoint scopes and one that covers both.
RaceEncryptors == {{1}, {2}, {1, 2}}

RaceKeys == {1, 2}

ZeroEntry == [encryptor |-> {}, success |-> 0, total |-> 0]

IdleTask ==
    [pc |-> "idle", key |-> Nil, n |-> 0, i |-> 0, live |-> FALSE,
     e |-> ZeroEntry, by |-> {}]

IdleRace ==
    [dead |-> <<>>, task |-> [t \in Tasks |-> IdleTask],
     overlap |-> FALSE, miscredit |-> FALSE, panic |-> FALSE]

InitRace ==
    /\ InitRepo
    /\ InitWorker
    /\ objects = [o \in Objs |-> [queuedAt |-> Nil]]
    /\ now = 1
    /\ objRow = Nil
    /\ mig = Nil
    /\ get = Nil
    /\ calc = IdleRace

raceFrame == UNCHANGED <<call, workerVars, storeVars>>

\* The tasks that are inside the loop of DecryptMetadata.
InLoop == {t \in Tasks : calc.task[t].pc \in {"loop", "try", "success"}}

\* append allocates a new backing array when the capacity is used up: the
\* capacity doubles (1 for an empty slice).
GrownCap(c) == IF c = 0 THEN 1 ELSE 2 * c

\* A new backing array has been allocated: every pointer taken from the old
\* one goes on referring to the old slot, which keeps its contents.
Detach(tasks) ==
    [t \in Tasks |->
       IF tasks[t].pc \in {"try", "success"} /\ tasks[t].live
       THEN [tasks[t] EXCEPT !.live = FALSE,
                             !.e = (encryptors \o calc.dead)[tasks[t].i]]
       ELSE tasks[t]]

\* ObjectMigratorWorker.AddEncryptor, under w.mutex and the mutex of the
\* repository: a replacement writes the slot, an append writes the next
\* slot of the backing array or a new array.
RaceAdd(newEncryptor) ==
    LET r == RepoAddEncryptor(encryptors, newEncryptor)
        appended == Len(r.encryptors) > Len(encryptors)
        c == Len(encryptors) + Len(calc.dead)
    IN  /\ Len(r.encryptors) <= MaxSlots
        /\ encryptors' = r.encryptors
        /\ calc' =
             [calc EXCEPT
                !.overlap = @ \/ (InLoop # {}),
                !.dead = IF ~appended THEN @
                         ELSE IF @ # <<>> THEN Tail(@)
                         ELSE [k \in 1..(GrownCap(c) - c - 1) |-> ZeroEntry],
                !.task = IF appended /\ calc.dead = <<>> THEN Detach(@) ELSE @]
        /\ raceFrame

\* MigrateObject calls DecryptMetadata: "for i := range len(r.encryptors)"
\* reads the length once.
DmBegin(t, k) ==
    /\ calc.task[t].pc = "idle"
    /\ \A i \in 1..Len(encryptors) : encryptors[i].total < MaxCount
    /\ calc' = [calc EXCEPT !.task[t] =
                  [IdleTask EXCEPT !.pc = "loop", !.key = k,
                                   !.n = Len(encryptors), !.i = 1]]
    /\ UNCHANGED encryptors
    /\ raceFrame

\* The slots of the backing array with slot i changed by f.
WriteSlot(i, f(_)) ==
    LET arr == encryptors \o calc.dead
        new == [arr EXCEPT ![i] = f(@)]
    IN  [encryptors |-> SubSeq(new, 1, Len(encryptors)),
         dead |-> SubSeq(new, Len(encryptors) + 1, Len(new))]

AddTotal(entry) == [entry EXCEPT !.total = @ + 1]

AddSuccess(entry) == [entry EXCEPT !.success = @ + 1]

\* "e := &r.encryptors[i]; atomic.AddInt64(&e.total, 1)", or the loop is
\* over and the error is returned.  The index is checked against the
\* current length: index out of range panics.
DmTotal(t) ==
    LET s == calc.task[t]
    IN  /\ s.pc = "loop"
        /\ IF s.i > s.n
           THEN /\ calc' = [calc EXCEPT !.task[t] = IdleTask]
                /\ UNCHANGED encryptors
           ELSE IF s.i > Len(encryptors)
           THEN /\ calc' = [calc EXCEPT !.task[t] = IdleTask, !.panic = TRUE]
                /\ UNCHANGED encryptors
           ELSE LET w == WriteSlot(s.i, AddTotal)
                IN  /\ encryptors' = w.encryptors
                    /\ calc' = [calc EXCEPT !.dead = w.dead,
                                            !.task[t].pc = "try",
                                            !.task[t].live = TRUE]
        /\ raceFrame

\* The entry e points to.
Pointee(s) == IF s.live THEN (encryptors \o calc.dead)[s.i] ELSE s.e

\* e.encryptor.DecryptPath and e.encryptor.DecryptMetadata.
DmTry(t) ==
    LET s == calc.task[t]
    IN  /\ s.pc = "try"
        /\ calc' = [calc EXCEPT !.task[t] =
                      IF CanDecrypt(Pointee(s).encryptor, s.key, s.key)
                      THEN [s EXCEPT !.pc = "success",
                                     !.by = Pointee(s).encryptor]
                      ELSE [s EXCEPT !.pc = "loop", !.i = @ + 1,
                                     !.live = FALSE]]
        /\ UNCHANGED encryptors
        /\ raceFrame

\* "atomic.AddInt64(&e.success, 1); return".
DmSuccess(t) ==
    LET s == calc.task[t]
    IN  /\ s.pc = "success"
        /\ IF s.live
           THEN LET w == WriteSlot(s.i, AddSuccess)
                IN  /\ encryptors' = w.encryptors
                    /\ calc' = [calc EXCEPT
                                  !.dead = w.dead,
                                  !.miscredit = @ \/ Pointee(s).encryptor # s.by,
                                  !.task[t].pc = "check"]
           ELSE /\ calc' = [calc EXCEPT !.task[t].pc = "check"]
                /\ UNCHANGED encryptors
        /\ raceFrame

\* MigrateObject: "w.encryptors.CheckEncryptors(maxEncryptorsPerProject)",
\* under the mutex of the repository: the slice is sorted in place and cut,
\* the slots cut off stay in the backing array.
DmCheck(t) ==
    /\ calc.task[t].pc = "check"
    /\ \E p \in {q \in Orderings(Len(encryptors)) :
                   SortedBySuccess([i \in 1..Len(encryptors) |-> encryptors[q[i]]])} :
          LET sorted == [i \in 1..Len(encryptors) |-> encryptors[p[i]]]
          IN  IF Len(encryptors) <= maxEncryptorsPerProject
              THEN /\ calc' = [calc EXCEPT !.task[t] = IdleTask]
                   /\ UNCHANGED encryptors
              ELSE /\ encryptors' = SubSeq(sorted, 1, maxEncryptorsPerProject)
                   /\ calc' =
                        [calc EXCEPT
                           !.task[t] = IdleTask,
                           !.overlap = @ \/ (InLoop # {}),
                           !.dead = SubSeq(sorted, maxEncryptorsPerProject + 1,
                                           Len(sorted)) \o @]
    /\ raceFrame

NextRace ==
    \/ \E e \in RaceEncryptors : RaceAdd(e)
    \/ \E t \in Tasks, k \in RaceKeys : DmBegin(t, k)
    \/ \E t \in Tasks : DmTotal(t)
    \/ \E t \in Tasks : DmTry(t)
    \/ \E t \in Tasks : DmSuccess(t)
    \/ \E t \in Tasks : DmCheck(t)

SpecRace == InitRace /\ [][NextRace]_vars

\* C32: the entry list of the repository is read and written only under the
\* mutex of the worker: no AddEncryptor or CheckEncryptors changes it while a
\* MigrateObject is inside the loop of DecryptMetadata.
C32_NoConcurrentAccess == ~calc.overlap

\* C37: for every entry success <= total, and a success is credited only to
\* the capability that performed the decryption.
C37_SuccessAtMostTotal ==
    /\ \A i \in 1..Len(encryptors) : encryptors[i].success <= encryptors[i].total
    /\ ~calc.miscredit

\* The goroutine does not panic inside DecryptMetadata.
DecryptNeverPanics == ~calc.panic
(***************************************************************************)
(* The watermark of the worker                                             *)
(***************************************************************************)
\* The step is an ObjectMigrator.AddProject of some request.
StepAddProject ==
    \E r \in Reqs : req[r].pc = "idle" /\ req'[r].pc = "subscribe"

\* The step is an AddEncryptor for which the repository reported a change.
StepRepositoryChanged ==
    \E e \in RequestEncryptors :
       LET a == RepoAddEncryptor(encryptors, e)
       IN  a.ret /\ encryptors' = a.encryptors

\* The rows whose successful MigrateObject ends with the step.
StepMigrated ==
    {run[g].cur : g \in {h \in RunSlots : /\ run[h].pc = "mo_update"
                                          /\ run'[h].pc = "scan"}}
    \cup {req[r].cur : r \in {q \in Reqs : /\ req[q].pc = "mo_update"
                                           /\ req'[q].pc = "done"}}

\* The later of two timestamps; nil is the epoch.
MaxTimestamp(a, b) == IF a < b THEN b ELSE a

\* C33: startTime decreases only in an AddEncryptor call for which the
\* repository reported a change, which sets it to nil; an AddEncryptor that
\* returns false leaves it unchanged; a successful MigrateObject sets it to
\* the later of startTime and the object's metasearch_queued_at.
C33_StartTimeMonotone ==
    [][/\ startTime' < startTime =>
            (StepAddProject /\ StepRepositoryChanged /\ startTime' = Nil)
       /\ (StepAddProject /\ ~StepRepositoryChanged) => startTime' = startTime
       /\ \A row \in StepMigrated :
             startTime' = MaxTimestamp(startTime, row.queuedAt)]_vars

\* A run has migrated the objects written at times 1 and 2 and the watermark
\* is at the later one.
C33_Witness ==
    /\ startTime = 2
    /\ now = 3
    /\ \A o \in Objs : objects[o].queuedAt = Nil
    /\ \E g \in RunSlots : run[g].pc = "scan" /\ run[g].rows = <<>>

\* C34: when MigrateObject has failed to decrypt a queued object during a
\* run, startTime is past the object's metasearch_queued_at: the query of a
\* later run, "metasearch_queued_at >= startTime", does not deliver the
\* object again.
C34_FailedObjectSkipped ==
    [][\A g \in RunSlots :
          (run[g].pc = "mo_fail" /\ run'[g].pc = "scan") =>
              ~(/\ objects'[run[g].cur.obj].queuedAt = run[g].cur.queuedAt
                /\ run[g].cur.queuedAt >= startTime')]_vars

\* C35: a failed decryption during MigrateProject writes nothing back (the
\* object stays queued with the timestamp it had) and does not end the scan:
\* the rows delivered by GetObjectsForMigration are handed to MigrateObject
\* one after the other, whatever MigrateObject returned for the earlier
\* ones, and MigrateProject returns when none is left.
C35_FailureKeepsScanning ==
    [][\A g \in RunSlots :
          /\ (run[g].pc = "scan" /\ run'[g].pc = "mo_fail") => objects' = objects
          /\ (run[g].pc = "mo_fail" /\ run'[g] # run[g]) =>
                /\ objects' = objects
                /\ run'[g].pc = "scan"
                /\ run'[g].rows = run[g].rows
          /\ (run[g].pc \in {"mo_write", "mo_update"}) =>
                run'[g].rows = run[g].rows
          /\ (run[g].pc = "scan" /\ run'[g].rows # run[g].rows) =>
                /\ run'[g].rows = Tail(run[g].rows)
                /\ run'[g].cur = Head(run[g].rows)
                /\ run'[g].pc \in {"mo_write", "mo_fail"}
          /\ (run[g].pc = "scan" /\ run'[g].pc = "finish") =>
                run[g].rows = <<>>]_vars

\* A run has failed on the object at the watermark, which is still queued,
\* and goes on with the rows that are left.
C35_Witness ==
    \E g \in RunSlots, o \in Objs :
       /\ run[g].pc = "scan"
       /\ run[g].rows # <<>>
       /\ req[1].pc = "idle"
       /\ startTime # Nil
       /\ objects[o].queuedAt = startTime
       /\ ~RepoDecryptMetadata(encryptors, ObjKey(o), ObjKey(o)).ok
       /\ \A i \in 1..Len(run[g].rows) : run[g].rows[i].obj # o

\* One request at a time, always with the access grant that decrypts object
\* 2 and not object 1: the repository changes only when the worker is
\* created, before any run.
NextInline == NextOf({1}, {{2}}, MaxTime)

SpecInline == Init /\ [][NextInline]_vars

\* The repository holds a capability that decrypts object o.
CanBeDecrypted(o) == RepoDecryptMetadata(encryptors, ObjKey(o), ObjKey(o)).ok

\* A MigrateObject has decrypted the row of o as it is now and is about to
\* write it back.
WriteInFlight(o) ==
    LET row == [obj |-> o, queuedAt |-> objects[o].queuedAt]
    IN  \/ \E g \in RunSlots : run[g].pc = "mo_write" /\ run[g].cur = row
        \/ \E r \in Reqs : req[r].pc = "mo_write" /\ req[r].cur = row

\* C36: whenever startTime is set, every object still queued with an earlier
\* metasearch_queued_at has had a decryption attempt with the current
\* capabilities: it is not an object that the repository can decrypt, unless
\* its write-back is in flight.
C36_NothingSkippedUnattempted ==
    \A o \in Objs :
       (/\ startTime # Nil
        /\ objects[o].queuedAt # Nil
        /\ objects[o].queuedAt < startTime
        /\ CanBeDecrypted(o)) => WriteInFlight(o)
(***************************************************************************)
(* The mutexes: ObjectMigrator.mutex ("m"), ObjectMigratorWorker.mutex     *)
(* ("w") and EncryptorRepository.mutex ("r")                               *)
(*                                                                         *)
(* Every function is the sequence of its lock, unlock and channel          *)
(* operations, with the calls it makes inlined; a goroutine executes one   *)
(* operation per step.  calc holds the place of every goroutine, the       *)
(* holder of every mutex, the worker map, running, the subscribers and the *)
(* buffers of the waiter channels.                                         *)
(***************************************************************************)
Mutexes == {"m", "w", "r"}

Waiters == {"wait1", "wait2"}

LockTasks == {"add", "tick", "get", "run"} \cup Waiters

Op(o) == [op |-> o, mu |-> "-", else |-> 0]

Lock(x) == [op |-> "lock", mu |-> x, else |-> 0]

Unlock(x) == [op |-> "unlock", mu |-> x, else |-> 0]

\* An operation with two continuations: the next one, or the one at else.
Branch(o, k) == [op |-> o, mu |-> "-", else |-> k]

\* ObjectMigrator.AddProject -> ObjectMigratorWorker.AddEncryptor ->
\* EncryptorRepository.AddEncryptor; the deferred unlocks run in reverse.
AddProjectOps ==
    <<Lock("m"), Op("worker"), Lock("w"), Lock("r"), Unlock("r"),
      Unlock("w"), Unlock("m")>>

\* One round of the ticker: worker.Start() for every worker, under m.mutex.
TickerOps ==
    <<Lock("m"), Branch("exists", 6), Lock("w"), Op("start"), Unlock("w"),
      Unlock("m")>>

\* ObjectMigrator.WaitForProject -> ObjectMigratorWorker.WaitForProject.
WaitForProjectOps ==
    <<Lock("m"), Unlock("m"), Branch("exists", 11), Lock("w"),
      Op("subscribe"), Unlock("w"), Lock("w"), Op("start"), Unlock("w"),
      Op("select")>>

\* Variant of MigrateObject that keeps the mutex of the repository until
\* updateStartTime has returned.
MigrateObjectNestedOps ==
    <<Lock("r"), Lock("w"), Unlock("w"), Unlock("r")>>

\* ObjectMigratorWorker.MigrateObject after a successful decryption:
\* CheckEncryptors and, after repo.MigrateMetadata, updateStartTime.
MigrateObjectOps ==
    <<Lock("r"), Unlock("r"), Lock("w"), Unlock("w")>>

\* ObjectMigrator.MigrateObject as HandleGet calls it; a failed decryption
\* goes to updateStartTime.
InlineOps ==
    <<Lock("m"), Unlock("m"), Branch("exists", 9), Branch("decrypt", 7)>>
    \o MigrateObjectOps

\* The goroutine of ObjectMigratorWorker.Start: MigrateProject with at most
\* one row, then the completion under w.mutex.
RunOps ==
    <<Branch("rows", 7), Branch("decrypt", 5)>> \o MigrateObjectOps
    \o <<Lock("w"), Op("send"), Op("clear"), Unlock("w")>>

Program(t) ==
    CASE t = "add" -> AddProjectOps
      [] t = "tick" -> TickerOps
      [] t = "get" -> InlineOps
      [] t = "run" -> RunOps
      [] OTHER -> WaitForProjectOps

IdleLocks ==
    [pc |-> [t \in LockTasks |-> 0],
     mu |-> [x \in Mutexes |-> "free"],
     exists |-> FALSE, running |-> FALSE, subscribers |-> <<>>,
     buf |-> [c \in Waiters |-> 0]]

InitLocks ==
    /\ InitRepo
    /\ InitWorker
    /\ objects = [o \in Objs |-> [queuedAt |-> Nil]]
    /\ now = 1
    /\ objRow = Nil
    /\ mig = Nil
    /\ get = Nil
    /\ calc = IdleLocks

locksFrame == UNCHANGED <<repoVars, workerVars, storeVars>>

\* The operation goroutine t is at.
Current(t) == Program(t)[calc.pc[t]]

Held(t) == {x \in Mutexes : calc.mu[x] = t}

\* The place after operation k of t; the function returns after the last.
After(t, k) == IF k >= Len(Program(t)) THEN 0 ELSE k + 1

\* A request calls the function, or the ticker wakes up.  A waiter is
\* admitted when the channel of its last wait is no longer in the list.
Begin(t) ==
    /\ t # "run"
    /\ calc.pc[t] = 0
    /\ \A i \in 1..Len(calc.subscribers) : calc.subscribers[i] # t
    /\ calc' = [calc EXCEPT !.pc[t] = 1]
    /\ locksFrame

Acquire(t) ==
    /\ calc.pc[t] > 0
    /\ Current(t).op = "lock"
    /\ calc.mu[Current(t).mu] = "free"
    /\ calc' = [calc EXCEPT !.mu[Current(t).mu] = t,
                            !.pc[t] = After(t, @)]
    /\ locksFrame

Release(t) ==
    /\ calc.pc[t] > 0
    /\ Current(t).op = "unlock"
    /\ calc' = [calc EXCEPT !.mu[Current(t).mu] = "free",
                            !.pc[t] = After(t, @)]
    /\ locksFrame

\* "for _, subscriber := range w.subscribers { subscriber <- true }" can be
\* executed: no channel of the list is full.
CanSend == \A i \in 1..Len(calc.subscribers) : calc.buf[calc.subscribers[i]] = 0

\* The operations that take no mutex.
Execute(t) ==
    /\ calc.pc[t] > 0
    /\ LET c == Current(t)
           next == After(t, calc.pc[t])
       IN  CASE c.op = "worker" ->
                  calc' = [calc EXCEPT !.exists = TRUE, !.pc[t] = next]
             [] c.op = "exists" ->
                  calc' = [calc EXCEPT !.pc[t] = IF calc.exists THEN next
                                                 ELSE After(t, c.else - 1)]
             [] c.op \in {"rows", "decrypt"} ->
                  \E k \in {next, c.else} : calc' = [calc EXCEPT !.pc[t] = k]
             [] c.op = "start" ->
                  calc' = IF calc.running
                          THEN [calc EXCEPT !.pc[t] = next]
                          ELSE [calc EXCEPT !.pc[t] = next, !.running = TRUE,
                                            !.pc["run"] = 1]
             [] c.op = "subscribe" ->
                  calc' = [calc EXCEPT !.pc[t] = next,
                                       !.buf[t] = 0,
                                       !.subscribers = Append(@, t)]
             [] c.op = "send" ->
                  /\ CanSend
                  /\ calc' = [calc EXCEPT
                                !.pc[t] = next,
                                !.buf = [w \in Waiters |->
                                           IF \E i \in 1..Len(calc.subscribers) :
                                                 calc.subscribers[i] = w
                                           THEN 1 ELSE @[w]]]
             [] c.op = "clear" ->
                  calc' = [calc EXCEPT
                             !.pc[t] = next,
                             !.subscribers = SubscribersAfterSignal(@),
                             !.running = FALSE]
             [] c.op = "select" ->
                  calc' = [calc EXCEPT !.pc[t] = next, !.buf[t] = 0]
             [] OTHER -> FALSE
    /\ locksFrame

NextLocks ==
    \/ \E t \in LockTasks : Begin(t)
    \/ \E t \in LockTasks : Acquire(t)
    \/ \E t \in LockTasks : Release(t)
    \/ \E t \in LockTasks : Execute(t)

SpecLocks == InitLocks /\ [][NextLocks]_vars

\* The mutex goroutine t is waiting for, if any.
Wants(t) ==
    IF calc.pc[t] > 0 /\ Current(t).op = "lock" THEN {Current(t).mu} ELSE {}

Rank(x) == CASE x = "m" -> 1 [] x = "w" -> 2 [] OTHER -> 3

\* The goroutine is in a send to a full waiter channel.
BlockedInSend(t) == calc.pc[t] > 0 /\ Current(t).op = "send" /\ ~CanSend

\* Goroutine t can take a step, or waits for a mutex whose holder can, or
\* the holder waits for a mutex whose holder can.
CanStep(t) ==
    /\ calc.pc[t] > 0
    /\ Current(t).op = "lock" => calc.mu[Current(t).mu] = "free"
    /\ Current(t).op = "send" => CanSend

HolderOf(t) == {calc.mu[x] : x \in Wants(t)}

CanProgress(t) ==
    \/ CanStep(t)
    \/ \E h \in HolderOf(t) :
          \/ CanStep(h)
          \/ \E h2 \in HolderOf(h) : CanStep(h2)

C39_RowsAfterToken ==
    (calc.op = "jsonResponse" /\ calc.request.PageToken # NoToken) =>
        LET t == parsePageToken(calc.request.PageToken)
        IN  t.ok =>
               \A i \in 1..Len(calc.rows) :
                  TupleLess(t.loc.ObjectKey, t.loc.Version,
                            calc.rows[i].ObjectKey, calc.rows[i].Version)

\* The same for the tokens with a project ID that is not zero.
RowsAfterProjectToken ==
    (calc.op = "jsonResponse" /\ calc.request.PageToken # NoToken) =>
        LET t == parsePageToken(calc.request.PageToken)
        IN  (t.ok /\ t.loc.ProjectID # ZeroUUID) =>
               \A i \in 1..Len(calc.rows) :
                  TupleLess(t.loc.ObjectKey, t.loc.Version,
                            calc.rows[i].ObjectKey, calc.rows[i].Version)
(***************************************************************************)
(* The handlers of the API as the sequences of the calls they make         *)
(*                                                                         *)
(* A handler returns with an error response at the first call that fails.  *)
(* calc holds the handler of the request in progress, the call it is at,   *)
(* the calls that have succeeded so far, and the worker map and the        *)
(* repository as they were when the request arrived.                       *)
(***************************************************************************)
Handlers == {"HandleGet", "HandleQuery", "HandleUpdate", "HandleDelete"}

\* Server.validateRequest: Authenticate, AddProject, WaitForProject, the
\* decoding of the body if there is one, EncryptPath.
ValidateRequestCalls(body) ==
    <<"Authenticate", "AddProject", "WaitForProject">>
    \o (IF body THEN <<"Decode">> ELSE <<>>) \o <<"EncryptPath">>

\* Variant of HandleDelete without the call of Authorize.
HandleDeleteUncheckedCalls ==
    ValidateRequestCalls(FALSE) \o <<"DeleteMetadata">>

HandleDeleteCalls ==
    ValidateRequestCalls(FALSE) \o <<"ActionDeleteMetadata", "DeleteMetadata">>

HandleGetCalls ==
    ValidateRequestCalls(FALSE) \o <<"ActionReadMetadata", "GetMetadata">>

HandleUpdateCalls ==
    ValidateRequestCalls(TRUE)
    \o <<"ActionWriteMetadata", "EncryptMetadata", "UpdateMetadata">>

\* validateSearchRequest goes on after validateRequest with the page token,
\* the key prefix, the filter and the projection.
HandleQueryCalls ==
    ValidateRequestCalls(TRUE)
    \o <<"validateSearchRequest", "ActionQueryMetadata", "QueryMetadata">>

Calls(h) ==
    CASE h = "HandleGet" -> HandleGetCalls
      [] h = "HandleQuery" -> HandleQueryCalls
      [] h = "HandleUpdate" -> HandleUpdateCalls
      [] OTHER -> HandleDeleteCalls

\* The methods of MetaSearchRepo the handlers call, and the action each
\* handler asks the Authorizer for.
RepoCalls == {"GetMetadata", "QueryMetadata", "UpdateMetadata", "DeleteMetadata"}

ActionOf(method) ==
    CASE method = "GetMetadata" -> "ActionReadMetadata"
      [] method = "QueryMetadata" -> "ActionQueryMetadata"
      [] method = "UpdateMetadata" -> "ActionWriteMetadata"
      [] OTHER -> "ActionDeleteMetadata"

IdleHandler ==
    [handler |-> "none", pc |-> 0, passed |-> <<>>, failed |-> "none",
     encryptor |-> {},
     before |-> [workerExists |-> FALSE, encryptors |-> <<>>]]

InitRequest ==
    /\ InitRepo
    /\ InitWorker
    /\ objects = [o \in Objs |-> [queuedAt |-> Nil]]
    /\ now = 1
    /\ objRow = Nil
    /\ mig = Nil
    /\ get = Nil
    /\ calc = IdleHandler

requestFrame ==
    UNCHANGED <<call, running, subscribers, chanBuf, chanSent, blocked, run,
                req, objects, now, storeVars>>

requestIdle == UNCHANGED <<encryptors, workerExists, startTime, rescanPending>>

\* A request arrives with an access grant; the handler of its route starts.
Arrive(h, e) ==
    /\ calc.handler = "none"
    /\ calc' = [IdleHandler EXCEPT
                  !.handler = h, !.pc = 1, !.encryptor = e,
                  !.before = [workerExists |-> workerExists,
                              encryptors |-> encryptors]]
    /\ requestIdle
    /\ requestFrame

\* The call the handler is at succeeds and the handler goes on.
\* ObjectMigrator.AddProject registers the worker and the capability.
CallSucceeds ==
    /\ calc.handler # "none"
    /\ calc.failed = "none"
    /\ calc.pc <= Len(Calls(calc.handler))
    /\ LET c == Calls(calc.handler)[calc.pc]
       IN  /\ calc' = [calc EXCEPT !.pc = @ + 1, !.passed = Append(@, c)]
           /\ IF c = "AddProject"
              THEN LET a == RepoAddEncryptor(encryptors, calc.encryptor)
                   IN  /\ encryptors' = a.encryptors
                       /\ workerExists' = TRUE
                       /\ startTime' = IF a.ret THEN Nil ELSE startTime
                       /\ rescanPending' =
                             IF a.ret THEN TRUE ELSE rescanPending
              ELSE requestIdle
    /\ requestFrame

\* The call returns an error (WaitForProject: false): the handler writes
\* the error response.  AddProject returns nothing.
CallFails ==
    /\ calc.handler # "none"
    /\ calc.failed = "none"
    /\ calc.pc <= Len(Calls(calc.handler))
    /\ Calls(calc.handler)[calc.pc] # "AddProject"
    /\ calc' = [calc EXCEPT !.failed = Calls(calc.handler)[calc.pc]]
    /\ requestIdle
    /\ requestFrame

\* The response has been written.
HandlerReturns ==
    /\ calc.handler # "none"
    /\ calc.failed # "none" \/ calc.pc > Len(Calls(calc.handler))
    /\ calc' = IdleHandler
    /\ requestIdle
    /\ requestFrame

NextRequest ==
    \/ \E h \in Handlers, e \in RequestEncryptors : Arrive(h, e)
    \/ CallSucceeds
    \/ CallFails
    \/ HandlerReturns

SpecRequest == InitRequest /\ [][NextRequest]_vars

\* C40: a method of the repository is called only after Authenticate,
\* AddProject, WaitForProject and, as the last check before it, Authorize
\* for the action of the handler have succeeded, in that order; a request
\* whose Authenticate fails leaves the worker map and the repository of the
\* project as they were.
C40_ChecksBeforeRepo ==
    /\ \A i \in 1..Len(calc.passed) :
          calc.passed[i] \in RepoCalls =>
             LET earlier == SubSeq(calc.passed, 1, i - 1)
                 checks == [k \in 1..3 |-> earlier[k]]
             IN  /\ Len(earlier) >= 4
                 /\ checks = <<"Authenticate", "AddProject", "WaitForProject">>
                 /\ \E k \in 4..Len(earlier) :
                       earlier[k] = ActionOf(calc.passed[i])
    /\ calc.failed = "Authenticate" =>
          /\ workerExists = calc.before.workerExists
          /\ encryptors = calc.before.encryptors

\* HandleUpdate has called UpdateMetadata for a project that an earlier
\* request had registered.
C40_Witness ==
    /\ calc.handler = "HandleUpdate"
    /\ calc.pc > Len(HandleUpdateCalls)
    /\ calc.passed[Len(calc.passed)] = "UpdateMetadata"
    /\ calc.before.workerExists
====
